---- MODULE Spec2Model ----
(***************************************************************************)
(* A model of the QuickOBJ loader (src/src/main.c, the revision that       *)
(* starts at line 1072: qobj_load_obj, qobj_free_obj, qobj_load_mtl,       *)
(* qobj_free_mtl and their helpers).  One behaviour is one call of one of  *)
(* the two loaders, followed by the call of its free function.             *)
(*                                                                         *)
(* The input file is a stream of atoms (lexemes): words, integer and float *)
(* literals, '/', ' ', '\n' and the end-of-stream marker.  The stream is   *)
(* either one of a few fixed files (Scripts) or is produced lazily, one    *)
(* line form at a time (src names a family of files); inp then holds the   *)
(* part of the stream that has been produced and not been consumed.        *)
(* Tokens and lines are shorter than QOBJ_MAX_TOKEN_LEN in every input.    *)
(***************************************************************************)
EXTENDS Integers, Sequences, FiniteSets, TLC

VARIABLES
    src,            \* the input: a family of files or the name of a script
    path,           \* the path argument, a sequence of characters
    inp,            \* the known, unconsumed part of the stream (fptr)
    pc,             \* position in qobj_load_obj / the caller
    errorCode,      \* errorCode of qobj_load_obj
    live,           \* the heap: blocks allocated and not freed
    badFree,        \* pointers passed to free() that were not live blocks
    oomLeft,        \* allocation failures that may still be injected
    positions,      \* raw pools: [ptr, size, cap, data]
    normals,
    texCoords,
    numMeshes,      \* *numMeshes
    meshes,         \* *meshes: [ptr, arr]
    meshVertexMaps, \* meshVertexMaps: [ptr, arr]
    curMaterial,
    curMesh,
    firstVertex,    \* locals of the "f" handler
    v1,
    v2,
    spec,
    mtl,            \* qobj_load_mtl: *numMaterials, *materials, curMaterial
    gh              \* history (ghost) record, read only by the properties

vars == <<src, path, inp, pc, errorCode, live, badFree, oomLeft, positions,
          normals, texCoords, numMeshes, meshes, meshVertexMaps, curMaterial,
          curMesh, firstVertex, v1, v2, spec, mtl, gh>>

-----------------------------------------------------------------------------
(* Bounds of the model *)

MaxPositions == 2       \* "v" lines of a lazily produced file
MaxNormals == 1         \* "vn" lines of a lazily produced file
MaxTexCoords == 1       \* "vt" lines of a lazily produced file
MaxTriangles == 2       \* triangles built from a lazily produced file
MaxMeshes == 2          \* meshes built from a lazily produced file
MaxOdd == 1             \* oddities of such a file: a reference with a negative,
                        \* zero or out of range component or of another format
                        \* than its face, a command with nothing after it
MaxMaterials == 2       \* "newmtl" lines of a lazily produced material file
MaxLines == 3           \* command lines of a lazily produced material file
MaxAllocFailures == 1   \* injected allocation failures per call

-----------------------------------------------------------------------------
(* Program constants *)

QOBJ_ATTRIB_SIZE_POSITION == 3
QOBJ_ATTRIB_SIZE_NORMAL == 3
QOBJ_ATTRIB_SIZE_TEX_COORDS == 2

QOBJ_VERTEX_ATTRIB_POSITION == 1
QOBJ_VERTEX_ATTRIB_NORMAL == 2
QOBJ_VERTEX_ATTRIB_TEX_COORDS == 4

QOBJ_VERTEX_SPEC_POSITION == 1
QOBJ_VERTEX_SPEC_POSITION_TEX_COORD == 5
QOBJ_VERTEX_SPEC_POSITION_NORMAL == 3
QOBJ_VERTEX_SPEC_POSITION_TEX_COORD_NORMAL == 7

\* UINT32_MAX is the all-ones word, (uint32_t)-1.  It is used as a sentinel
\* (no working mesh, absent attribute); UINT32_MAX / 2 is the threshold of
\* the saturating doublings.
UINT32_MAX == -1
UINT32_MAX_DIV_2 == 2147483647

InitialCap == 32        \* positionCap, normalCap, texCoordCap, vertexCap, indexCap
HashmapInitialCap == 32

\* The 64-bit FNV-1a constants of _qobj_hashmap_hash, reduced modulo
\* 2^HashBits.  Every capacity of the map is a power of two that divides
\* 2^HashBits, so (h mod 2^64) mod cap = (h mod 2^HashBits) mod cap.
HashBits == 15
HashModulus == 32768
FnvOffsetLow == 8997    \* 14695981039346656037 mod 2^15
FnvPrimeLow == 435      \* 1099511628211 mod 2^15

QOBJ_SUCCESS == "QOBJ_SUCCESS"
QOBJ_ERROR_INVALID_FILE == "QOBJ_ERROR_INVALID_FILE"
QOBJ_ERROR_IO == "QOBJ_ERROR_IO"
QOBJ_ERROR_OUT_OF_MEM == "QOBJ_ERROR_OUT_OF_MEM"
QOBJ_ERROR_UNSUPPORTED_DATA_TYPE == "QOBJ_ERROR_UNSUPPORTED_DATA_TYPE"

Uninit == 0             \* the indeterminate content of memory never written

-----------------------------------------------------------------------------
(* The stream: atoms *)

W(x) == [k |-> "w", w |-> x, n |-> 0]      \* a word
I(i) == [k |-> "d", w |-> "", n |-> i]     \* an integer literal
F(x) == [k |-> "f", w |-> "", n |-> x]     \* a float literal of value x
SL == [k |-> "/", w |-> "", n |-> 0]
SP == [k |-> "sp", w |-> "", n |-> 0]
NL == [k |-> "nl", w |-> "", n |-> 0]
EOF == [k |-> "eof", w |-> "", n |-> 0]

isspace(c) == c.k \in {"sp", "nl"}

RECURSIVE SkipWs(_)
SkipWs(s) ==
    IF s # <<>> /\ isspace(Head(s)) THEN SkipWs(Tail(s)) ELSE s

\* _qobj_next_token: characters up to the first whitespace or end of stream.
\* ok = FALSE: the known part of a lazily produced stream ended first.
RECURSIVE NextTokenAux(_, _)
NextTokenAux(s, acc) ==
    IF s = <<>> THEN [ok |-> FALSE, token |-> acc, endCh |-> EOF, rest |-> s]
    ELSE LET curCh == Head(s) IN
         IF curCh.k = "eof"
         THEN [ok |-> TRUE, token |-> acc, endCh |-> curCh, rest |-> s]
         ELSE IF isspace(curCh)
         THEN [ok |-> TRUE, token |-> acc, endCh |-> curCh, rest |-> Tail(s)]
         ELSE NextTokenAux(Tail(s), Append(acc, curCh))

_qobj_next_token(s) == NextTokenAux(s, <<>>)

RECURSIVE TrimRight(_)
TrimRight(t) ==
    IF t # <<>> /\ isspace(t[Len(t)])
    THEN TrimRight(SubSeq(t, 1, Len(t) - 1))
    ELSE t

\* fgets: the characters up to and including the first newline, or up to
\* the end of the stream.
RECURSIVE FgetsAux(_, _)
FgetsAux(s, acc) ==
    IF s = <<>> THEN [ok |-> FALSE, line |-> acc, rest |-> s]
    ELSE LET c == Head(s) IN
         IF c.k = "eof" THEN [ok |-> TRUE, line |-> acc, rest |-> s]
         ELSE IF c.k = "nl"
         THEN [ok |-> TRUE, line |-> Append(acc, c), rest |-> Tail(s)]
         ELSE FgetsAux(Tail(s), Append(acc, c))

\* _qobj_fgets: fgets, then the trailing whitespace is cut off; an empty
\* token when nothing could be read.
_qobj_fgets(s) ==
    LET r == FgetsAux(s, <<>>) IN
    [ok |-> r.ok, token |-> TrimRight(r.line), raw |-> r.line, rest |-> r.rest]

\* fscanf with a format given as a sequence of directives:
\*   "d"  %d       "f"  %f       "/"  the literal '/'
\*   "ws" a whitespace directive (' ' or '\n' in the format)
\* n is the return value: the number of conversions, or -1 (EOF) when the
\* stream ends before the first conversion.
RECURSIVE Fscanf(_, _, _)
Fscanf(s, fmt, vals) ==
    IF fmt = <<>> THEN [ok |-> TRUE, n |-> Len(vals), vals |-> vals, rest |-> s]
    ELSE
    LET d == Head(fmt) IN
    IF d = "ws" THEN Fscanf(SkipWs(s), Tail(fmt), vals)
    ELSE
    LET s1 == IF d = "/" THEN s ELSE SkipWs(s)
        stop == [ok |-> TRUE, n |-> Len(vals), vals |-> vals, rest |-> s1]
    IN
    IF s1 = <<>> THEN [ok |-> FALSE, n |-> Len(vals), vals |-> vals, rest |-> s1]
    ELSE
    LET c == Head(s1) IN
    IF c.k = "eof"
    THEN [stop EXCEPT !.n = IF vals = <<>> THEN -1 ELSE Len(vals)]
    ELSE IF d = "/"
    THEN IF c.k = "/" THEN Fscanf(Tail(s1), Tail(fmt), vals) ELSE stop
    ELSE IF d = "d"
    THEN IF c.k = "d" THEN Fscanf(Tail(s1), Tail(fmt), Append(vals, c.n)) ELSE stop
    ELSE IF c.k \in {"d", "f"}
         THEN Fscanf(Tail(s1), Tail(fmt), Append(vals, c.n))
         ELSE stop

\* fgetc: one character; at the end of the stream EOF, which stays.
Fgetc(s) ==
    IF s = <<>> THEN [ok |-> FALSE, ch |-> EOF, rest |-> s]
    ELSE IF Head(s).k = "eof" THEN [ok |-> TRUE, ch |-> EOF, rest |-> s]
    ELSE [ok |-> TRUE, ch |-> Head(s), rest |-> Tail(s)]

-----------------------------------------------------------------------------
(* The heap.  A block is <<name, index, generation>>.  The record m that    *)
(* the helpers pass along holds the live blocks, the number of allocation  *)
(* attempts made by the running handler, the attempts that fail and the    *)
(* pointers freed while not live.                                          *)

NULL == <<"NULL", 0, 0>>
CallerOut == <<"caller:&meshes", 0, 0>>   \* the address held by the parameter meshes

Malloc(m, id) ==
    LET k == m.n + 1 IN
    IF k \in m.fail
    THEN [m |-> [m EXCEPT !.n = k], p |-> NULL]
    ELSE [m |-> [m EXCEPT !.n = k, !.live = @ \cup {id}], p |-> id]

Free(m, p) ==
    IF p \in m.live
    THEN [m EXCEPT !.live = @ \ {p}]
    ELSE [m EXCEPT !.bad = @ \cup {p}]

\* realloc: on success the old block is released and a new one returned,
\* on failure the old block stays as it is.
Realloc(m, p) ==
    LET k == m.n + 1
        q == <<p[1], p[2], p[3] + 1>>
    IN
    IF k \in m.fail
    THEN [m |-> [m EXCEPT !.n = k], p |-> NULL]
    ELSE [m |-> [Free(m, p) EXCEPT !.n = k, !.live = @ \cup {q}], p |-> q]

\* a C array of which a prefix has been written
Store(arr, idx, val) ==
    IF idx < Len(arr)
    THEN [arr EXCEPT ![idx + 1] = val]
    ELSE arr \o [j \in 1..(idx - Len(arr)) |-> Uninit] \o <<val>>

Load(arr, idx) == IF idx >= 0 /\ idx < Len(arr) THEN arr[idx + 1] ELSE Uninit

-----------------------------------------------------------------------------
(* Growable buffer *)

\* the capacity doubled once, as in the earlier revision
GrowCapOnce(newCap, numElems) ==
    IF newCap <= numElems THEN newCap * 2 ELSE newCap

RECURSIVE GrowCap(_, _)
GrowCap(newCap, numElems) ==
    IF newCap <= numElems
    THEN IF newCap > UINT32_MAX_DIV_2
         THEN UINT32_MAX
         ELSE GrowCap(newCap * 2, numElems)
    ELSE newCap

\* _qobj_maybe_resize_array leaving a buffer that is exactly full as it is
_qobj_maybe_resize_array_late(m, buffer, numElems, elemCap) ==
    IF numElems <= elemCap
    THEN [m |-> m, buffer |-> buffer, elemCap |-> elemCap, err |-> QOBJ_SUCCESS]
    ELSE LET newCap == GrowCap(elemCap, numElems)
             Resized(r) ==
                 IF r.p = NULL
                 THEN [m |-> r.m, buffer |-> buffer, elemCap |-> elemCap,
                       err |-> QOBJ_ERROR_OUT_OF_MEM]
                 ELSE [m |-> r.m, buffer |-> r.p, elemCap |-> newCap,
                       err |-> QOBJ_SUCCESS]
         IN Resized(Realloc(m, buffer))

_qobj_maybe_resize_array(m, buffer, numElems, elemCap) ==
    IF numElems < elemCap
    THEN [m |-> m, buffer |-> buffer, elemCap |-> elemCap, err |-> QOBJ_SUCCESS]
    ELSE LET newCap == GrowCap(elemCap, numElems)
             Resized(r) ==
                 IF r.p = NULL
                 THEN [m |-> r.m, buffer |-> buffer, elemCap |-> elemCap,
                       err |-> QOBJ_ERROR_OUT_OF_MEM]
                 ELSE [m |-> r.m, buffer |-> r.p, elemCap |-> newCap,
                       err |-> QOBJ_SUCCESS]
         IN Resized(Realloc(m, buffer))

-----------------------------------------------------------------------------
(* Vertex deduplication map *)

QOBJvertexRef(p, n, t) == [pos |-> p, normal |-> n, texCoord |-> t]
ZeroRef == QOBJvertexRef(0, 0, 0)

\* bit i of x
Bit(x, i) == (x \div (2 ^ i)) % 2

\* the bits lo .. hi - 1 of a ^ b
RECURSIVE XorBits(_, _, _, _)
XorBits(a, b, lo, hi) ==
    IF hi <= lo THEN 0
    ELSE IF hi = lo + 1 THEN ((Bit(a, lo) + Bit(b, lo)) % 2) * (2 ^ lo)
    ELSE XorBits(a, b, lo, (lo + hi) \div 2) + XorBits(a, b, (lo + hi) \div 2, hi)

BitXor(a, b, bits) == XorBits(a, b, 0, bits)

\* one round: h ^= (uint64_t)c; h *= 1099511628211ULL   (low HashBits bits);
\* x is the value of h when the round starts
FnvRound(h, c) ==
    CHOOSE r \in {(BitXor(x, c % HashModulus, HashBits) * FnvPrimeLow) % HashModulus :
                  x \in {h}} : TRUE

_qobj_hashmap_hash(key) ==
    FnvRound(FnvRound(FnvRound(FnvOffsetLow, key.pos), key.normal), key.texCoord)

ZeroMap == [size |-> 0, cap |-> 0, keys |-> NULL, vals |-> NULL,
            keysArr |-> <<>>, valsArr |-> <<>>]

\* i is the index of the map in meshVertexMaps; it only names the blocks.
_qobj_hashmap_create(m, i) ==
    LET map0 == [ZeroMap EXCEPT !.size = 0, !.cap = HashmapInitialCap]
        a == Malloc(m, <<"map.keys", i, 0>>)
    IN
    IF a.p = NULL
    THEN [m |-> a.m, map |-> map0, err |-> QOBJ_ERROR_OUT_OF_MEM]
    ELSE
    LET map1 == [map0 EXCEPT !.keys = a.p,
                             !.keysArr = [j \in 1..map0.cap |-> ZeroRef]]
        b == Malloc(a.m, <<"map.vals", i, 0>>)
    IN
    IF b.p = NULL
    THEN [m |-> Free(b.m, map1.keys), map |-> map1, err |-> QOBJ_ERROR_OUT_OF_MEM]
    ELSE [m |-> b.m,
          map |-> [map1 EXCEPT !.vals = b.p,
                               !.valsArr = [j \in 1..map0.cap |-> Uninit]],
          err |-> QOBJ_SUCCESS]

_qobj_hashmap_free(m, map) ==
    LET m1 == IF map.keys # NULL THEN Free(m, map.keys) ELSE m IN
    IF map.vals # NULL THEN Free(m1, map.vals) ELSE m1

\* the linear probe of _qobj_hashmap_get_or_add; fuel = 0: every slot was
\* visited and the loop goes round for ever
RECURSIVE Probe(_, _, _, _, _)
Probe(keysArr, cap, hash, key, fuel) ==
    IF fuel = 0 THEN [hang |-> TRUE, found |-> FALSE, hash |-> hash]
    ELSE IF keysArr[hash + 1].pos = 0
    THEN [hang |-> FALSE, found |-> FALSE, hash |-> hash]
    ELSE IF /\ keysArr[hash + 1].pos = key.pos
            /\ keysArr[hash + 1].normal = key.normal
            /\ keysArr[hash + 1].texCoord = key.texCoord
    THEN [hang |-> FALSE, found |-> TRUE, hash |-> hash]
    ELSE Probe(keysArr, cap, (hash + 1) % cap, key, fuel - 1)

\* the probe of the rehash loop: the first free slot from newHash on
RECURSIVE RehashProbe(_, _, _, _)
RehashProbe(newKeys, newCap, newHash, fuel) ==
    IF fuel = 0 \/ newKeys[newHash + 1].pos = 0
    THEN newHash
    ELSE RehashProbe(newKeys, newCap, (newHash + 1) % newCap, fuel - 1)

\* one round of a rehash loop without probing: the entry is stored at its
\* hash, whatever the slot holds
RehashSlotNoProbe(map, i, t, newCap) ==
    IF map.keysArr[i + 1].pos = 0 THEN t
    ELSE LET newHash == _qobj_hashmap_hash(map.keysArr[i + 1]) % newCap
         IN [keysArr |-> [t.keysArr EXCEPT ![newHash + 1] = map.keysArr[i + 1]],
             valsArr |-> [t.valsArr EXCEPT ![newHash + 1] = map.valsArr[i + 1]]]

\* one round of the rehash loop: slot i of the old table is entered into
\* the new tables t
RehashSlot(map, i, t, newCap) ==
    IF map.keysArr[i + 1].pos = 0 THEN t
    ELSE LET newHash == RehashProbe(t.keysArr, newCap,
                            _qobj_hashmap_hash(map.keysArr[i + 1]) % newCap, newCap)
         IN [keysArr |-> [t.keysArr EXCEPT ![newHash + 1] = map.keysArr[i + 1]],
             valsArr |-> [t.valsArr EXCEPT ![newHash + 1] = map.valsArr[i + 1]]]

\* the rehash loop over the slots lo .. hi - 1 of the old table, in
\* ascending order: the lower half of the range (the tables l it leaves),
\* then the upper half
RECURSIVE Rehash(_, _, _, _, _)
Rehash(map, lo, hi, t, newCap) ==
    IF hi <= lo THEN t
    ELSE IF hi = lo + 1 THEN RehashSlot(map, lo, t, newCap)
    ELSE CHOOSE r \in {Rehash(map, (lo + hi) \div 2, hi, l, newCap) :
                           l \in {Rehash(map, lo, (lo + hi) \div 2, t, newCap)}} : TRUE

\* _qobj_hashmap_get_or_add without its "resize and rehash if needed" part
HashmapResizeNever(m, map) == [m |-> m, map |-> map, err |-> QOBJ_SUCCESS]

\* the "resize and rehash if needed" part of _qobj_hashmap_get_or_add
HashmapResize(m, map) ==
    IF map.size < map.cap \div 2
    THEN [m |-> m, map |-> map, err |-> QOBJ_SUCCESS]
    ELSE
    LET newCap == IF map.cap >= UINT32_MAX_DIV_2 THEN UINT32_MAX ELSE map.cap * 2
        Rehashed(a, b, t) ==
            [m |-> Free(Free(b.m, map.keys), map.vals),
             map |-> [map EXCEPT !.cap = newCap, !.keys = a.p, !.vals = b.p,
                                 !.keysArr = t.keysArr, !.valsArr = t.valsArr],
             err |-> QOBJ_SUCCESS]
        NewVals(a, b) ==
            IF b.p = NULL
            THEN [m |-> Free(b.m, a.p), map |-> map, err |-> QOBJ_ERROR_OUT_OF_MEM]
            ELSE Rehashed(a, b, Rehash(map, 0, map.cap,
                                       [keysArr |-> [j \in 1..newCap |-> ZeroRef],
                                        valsArr |-> [j \in 1..newCap |-> Uninit]],
                                       newCap))
        NewKeys(a) ==
            IF a.p = NULL
            THEN [m |-> a.m, map |-> map, err |-> QOBJ_ERROR_OUT_OF_MEM]
            ELSE NewVals(a, Malloc(a.m, <<map.vals[1], map.vals[2], map.vals[3] + 1>>))
    IN NewKeys(Malloc(m, <<map.keys[1], map.keys[2], map.keys[3] + 1>>))

\* val is the candidate value (in) and the value of the key (out)
_qobj_hashmap_get_or_add(m, map, key, val) ==
    LET hash == _qobj_hashmap_hash(key) % map.cap
        Resized(rs, val1) == [m |-> rs.m, map |-> rs.map, val |-> val1, err |-> rs.err]
        Probed(pr) ==
            IF pr.hang
            THEN [m |-> m, map |-> map, val |-> val, err |-> "HANG"]
            ELSE IF pr.found
            THEN Resized(HashmapResize(m, map), map.valsArr[pr.hash + 1])
            ELSE Resized(HashmapResize(m, [map EXCEPT !.keysArr[pr.hash + 1] = key,
                                                      !.valsArr[pr.hash + 1] = val,
                                                      !.size = @ + 1]),
                         val)
    IN Probed(Probe(map.keysArr, map.cap, hash, key, map.cap + 1))

-----------------------------------------------------------------------------
(* Meshes *)

HasAttrib(vertexAttribs, bit) == (vertexAttribs \div bit) % 2 = 1

\* the QOBJmesh after memset(mesh, 0, ...); vdata, idata and mname are the
\* contents of the blocks vertices, indices and material
ZeroMesh ==
    [vertexAttribs |-> 0, vertexStride |-> 0, vertexPosOffset |-> 0,
     vertexNormalOffset |-> 0, vertexTexCoordOffset |-> 0,
     numVertices |-> 0, vertexCap |-> 0, vertices |-> NULL,
     numIndices |-> 0, indexCap |-> 0, indices |-> NULL, material |-> NULL,
     vdata |-> <<>>, idata |-> <<>>, mname |-> <<>>]

\* _qobj_mesh_create giving the normal the offset 0
_qobj_mesh_create_overlapping(m, i, vertexAttribs, materialName) ==
    LET hasP == HasAttrib(vertexAttribs, QOBJ_VERTEX_ATTRIB_POSITION)
        hasN == HasAttrib(vertexAttribs, QOBJ_VERTEX_ATTRIB_NORMAL)
        hasT == HasAttrib(vertexAttribs, QOBJ_VERTEX_ATTRIB_TEX_COORDS)
        stride1 == IF hasP THEN QOBJ_ATTRIB_SIZE_POSITION ELSE 0
        stride2 == IF hasN THEN stride1 + QOBJ_ATTRIB_SIZE_NORMAL ELSE stride1
        stride3 == IF hasT THEN stride2 + QOBJ_ATTRIB_SIZE_TEX_COORDS ELSE stride2
        mesh0 == [ZeroMesh EXCEPT
                    !.vertexAttribs = vertexAttribs,
                    !.vertexStride = stride3,
                    !.vertexPosOffset = IF hasP THEN 0 ELSE UINT32_MAX,
                    !.vertexNormalOffset = IF hasN THEN 0 ELSE UINT32_MAX,
                    !.vertexTexCoordOffset = IF hasT THEN stride2 ELSE UINT32_MAX,
                    !.vertexCap = InitialCap,
                    !.indexCap = InitialCap,
                    !.numVertices = 0,
                    !.numIndices = 0]
        a == Malloc(m, <<"mesh.vertices", i, 0>>)
    IN
    IF a.p = NULL
    THEN [m |-> a.m, mesh |-> mesh0, err |-> QOBJ_ERROR_OUT_OF_MEM]
    ELSE
    LET mesh1 == [mesh0 EXCEPT !.vertices = a.p]
        b == Malloc(a.m, <<"mesh.indices", i, 0>>)
    IN
    IF b.p = NULL
    THEN [m |-> Free(b.m, mesh1.vertices), mesh |-> mesh1,
          err |-> QOBJ_ERROR_OUT_OF_MEM]
    ELSE
    LET mesh2 == [mesh1 EXCEPT !.indices = b.p]
        c == Malloc(b.m, <<"mesh.material", i, 0>>)
    IN
    IF c.p = NULL
    THEN [m |-> Free(Free(c.m, mesh2.vertices), mesh2.indices), mesh |-> mesh2,
          err |-> QOBJ_ERROR_OUT_OF_MEM]
    ELSE [m |-> c.m,
          mesh |-> [mesh2 EXCEPT !.material = c.p, !.mname = materialName],
          err |-> QOBJ_SUCCESS]

\* i is the index of the mesh in *meshes; it only names the blocks.
_qobj_mesh_create(m, i, vertexAttribs, materialName) ==
    LET hasP == HasAttrib(vertexAttribs, QOBJ_VERTEX_ATTRIB_POSITION)
        hasN == HasAttrib(vertexAttribs, QOBJ_VERTEX_ATTRIB_NORMAL)
        hasT == HasAttrib(vertexAttribs, QOBJ_VERTEX_ATTRIB_TEX_COORDS)
        stride1 == IF hasP THEN QOBJ_ATTRIB_SIZE_POSITION ELSE 0
        stride2 == IF hasN THEN stride1 + QOBJ_ATTRIB_SIZE_NORMAL ELSE stride1
        stride3 == IF hasT THEN stride2 + QOBJ_ATTRIB_SIZE_TEX_COORDS ELSE stride2
        mesh0 == [ZeroMesh EXCEPT
                    !.vertexAttribs = vertexAttribs,
                    !.vertexStride = stride3,
                    !.vertexPosOffset = IF hasP THEN 0 ELSE UINT32_MAX,
                    !.vertexNormalOffset = IF hasN THEN stride1 ELSE UINT32_MAX,
                    !.vertexTexCoordOffset = IF hasT THEN stride2 ELSE UINT32_MAX,
                    !.vertexCap = InitialCap,
                    !.indexCap = InitialCap,
                    !.numVertices = 0,
                    !.numIndices = 0]
        a == Malloc(m, <<"mesh.vertices", i, 0>>)
    IN
    IF a.p = NULL
    THEN [m |-> a.m, mesh |-> mesh0, err |-> QOBJ_ERROR_OUT_OF_MEM]
    ELSE
    LET mesh1 == [mesh0 EXCEPT !.vertices = a.p]
        b == Malloc(a.m, <<"mesh.indices", i, 0>>)
    IN
    IF b.p = NULL
    THEN [m |-> Free(b.m, mesh1.vertices), mesh |-> mesh1,
          err |-> QOBJ_ERROR_OUT_OF_MEM]
    ELSE
    LET mesh2 == [mesh1 EXCEPT !.indices = b.p]
        c == Malloc(b.m, <<"mesh.material", i, 0>>)
    IN
    IF c.p = NULL
    THEN [m |-> Free(Free(c.m, mesh2.vertices), mesh2.indices), mesh |-> mesh2,
          err |-> QOBJ_ERROR_OUT_OF_MEM]
    ELSE [m |-> c.m,
          mesh |-> [mesh2 EXCEPT !.material = c.p, !.mname = materialName],
          err |-> QOBJ_SUCCESS]

_qobj_mesh_free(m, mesh) ==
    LET m1 == IF mesh.vertices # NULL THEN Free(m, mesh.vertices) ELSE m
        m2 == IF mesh.indices # NULL THEN Free(m1, mesh.indices) ELSE m1
    IN IF mesh.material # NULL THEN Free(m2, mesh.material) ELSE m2

\* NormalizeRef taking the position 0 for the first position of the pool
NormalizeRefZeroAsFirst(mesh, v, numPositions, numTexCoords, numNormals) ==
    LET hasP == HasAttrib(mesh.vertexAttribs, QOBJ_VERTEX_ATTRIB_POSITION)
        hasN == HasAttrib(mesh.vertexAttribs, QOBJ_VERTEX_ATTRIB_NORMAL)
        hasT == HasAttrib(mesh.vertexAttribs, QOBJ_VERTEX_ATTRIB_TEX_COORDS)
        pos == IF hasP /\ v.pos < 0 THEN v.pos + numPositions + 1
               ELSE IF hasP /\ v.pos = 0 THEN 1 ELSE v.pos
        normal == IF hasN /\ v.normal < 0 THEN v.normal + numNormals + 1
                  ELSE v.normal
        texCoord == IF hasT /\ v.texCoord < 0 THEN v.texCoord + numTexCoords + 1
                    ELSE v.texCoord
    IN [v |-> QOBJvertexRef(pos, normal, texCoord),
        invalid |-> \/ hasP /\ (pos < 1 \/ pos > numPositions)
                    \/ hasN /\ (normal < 1 \/ normal > numNormals)
                    \/ hasT /\ (texCoord < 1 \/ texCoord > numTexCoords)]

\* the "normalize and validate" part of _qobj_add_vertex: the reference as
\* it is handed to the map, and whether it is rejected
NormalizeRef(mesh, v, numPositions, numTexCoords, numNormals) ==
    LET hasP == HasAttrib(mesh.vertexAttribs, QOBJ_VERTEX_ATTRIB_POSITION)
        hasN == HasAttrib(mesh.vertexAttribs, QOBJ_VERTEX_ATTRIB_NORMAL)
        hasT == HasAttrib(mesh.vertexAttribs, QOBJ_VERTEX_ATTRIB_TEX_COORDS)
        pos == IF hasP /\ v.pos < 0 THEN v.pos + numPositions + 1 ELSE v.pos
        normal == IF hasN /\ v.normal < 0 THEN v.normal + numNormals + 1
                  ELSE v.normal
        texCoord == IF hasT /\ v.texCoord < 0 THEN v.texCoord + numTexCoords + 1
                    ELSE v.texCoord
    IN [v |-> QOBJvertexRef(pos, normal, texCoord),
        invalid |-> \/ hasP /\ (pos < 1 \/ pos > numPositions)
                    \/ hasN /\ (normal < 1 \/ normal > numNormals)
                    \/ hasT /\ (texCoord < 1 \/ texCoord > numTexCoords)]

\* the floats of one vertex, the position read at the index of the reference
\* as it is, not at the one before it
WriteVertexOneBased(mesh, v, insertIdx, P, T, N) ==
    LET hasP == HasAttrib(mesh.vertexAttribs, QOBJ_VERTEX_ATTRIB_POSITION)
        hasN == HasAttrib(mesh.vertexAttribs, QOBJ_VERTEX_ATTRIB_NORMAL)
        hasT == HasAttrib(mesh.vertexAttribs, QOBJ_VERTEX_ATTRIB_TEX_COORDS)
        posIdx == v.pos * QOBJ_ATTRIB_SIZE_POSITION
        normalIdx == (v.normal - 1) * QOBJ_ATTRIB_SIZE_NORMAL
        texCoordIdx == (v.texCoord - 1) * QOBJ_ATTRIB_SIZE_TEX_COORDS
        d0 == mesh.vdata
        d1 == IF ~hasP THEN d0 ELSE
              Store(Store(Store(d0,
                  insertIdx + mesh.vertexPosOffset + 0, Load(P.data, posIdx + 0)),
                  insertIdx + mesh.vertexPosOffset + 1, Load(P.data, posIdx + 1)),
                  insertIdx + mesh.vertexPosOffset + 2, Load(P.data, posIdx + 2))
        d2 == IF ~hasN THEN d1 ELSE
              Store(Store(Store(d1,
                  insertIdx + mesh.vertexNormalOffset + 0, Load(N.data, normalIdx + 0)),
                  insertIdx + mesh.vertexNormalOffset + 1, Load(N.data, normalIdx + 1)),
                  insertIdx + mesh.vertexNormalOffset + 2, Load(N.data, normalIdx + 2))
    IN IF ~hasT THEN d2 ELSE
       Store(Store(d2,
           insertIdx + mesh.vertexTexCoordOffset + 0, Load(T.data, texCoordIdx + 0)),
           insertIdx + mesh.vertexTexCoordOffset + 1, Load(T.data, texCoordIdx + 1))

\* the "add vertex" part of _qobj_add_vertex: the floats of one vertex
WriteVertex(mesh, v, insertIdx, P, T, N) ==
    LET hasP == HasAttrib(mesh.vertexAttribs, QOBJ_VERTEX_ATTRIB_POSITION)
        hasN == HasAttrib(mesh.vertexAttribs, QOBJ_VERTEX_ATTRIB_NORMAL)
        hasT == HasAttrib(mesh.vertexAttribs, QOBJ_VERTEX_ATTRIB_TEX_COORDS)
        posIdx == (v.pos - 1) * QOBJ_ATTRIB_SIZE_POSITION
        normalIdx == (v.normal - 1) * QOBJ_ATTRIB_SIZE_NORMAL
        texCoordIdx == (v.texCoord - 1) * QOBJ_ATTRIB_SIZE_TEX_COORDS
        d0 == mesh.vdata
        d1 == IF ~hasP THEN d0 ELSE
              Store(Store(Store(d0,
                  insertIdx + mesh.vertexPosOffset + 0, Load(P.data, posIdx + 0)),
                  insertIdx + mesh.vertexPosOffset + 1, Load(P.data, posIdx + 1)),
                  insertIdx + mesh.vertexPosOffset + 2, Load(P.data, posIdx + 2))
        d2 == IF ~hasN THEN d1 ELSE
              Store(Store(Store(d1,
                  insertIdx + mesh.vertexNormalOffset + 0, Load(N.data, normalIdx + 0)),
                  insertIdx + mesh.vertexNormalOffset + 1, Load(N.data, normalIdx + 1)),
                  insertIdx + mesh.vertexNormalOffset + 2, Load(N.data, normalIdx + 2))
    IN IF ~hasT THEN d2 ELSE
       Store(Store(d2,
           insertIdx + mesh.vertexTexCoordOffset + 0, Load(T.data, texCoordIdx + 0)),
           insertIdx + mesh.vertexTexCoordOffset + 1, Load(T.data, texCoordIdx + 1))

\* _qobj_add_vertex without "mesh->numVertices++"
_qobj_add_vertex_uncounted(m, mesh, map, v, P, T, N) ==
    LET insertIdx == mesh.numVertices * mesh.vertexStride
        Indexed(nr, h, mesh1) ==
            IF h.val < mesh.numVertices
            THEN [m |-> h.m, mesh |-> mesh1, map |-> h.map, keys |-> <<nr.v>>,
                  err |-> QOBJ_SUCCESS]
            ELSE [m |-> h.m,
                  mesh |-> [mesh1 EXCEPT !.vdata = WriteVertex(mesh, nr.v, insertIdx,
                                                              P, T, N)],
                  map |-> h.map, keys |-> <<nr.v>>, err |-> QOBJ_SUCCESS]
        Looked(nr, h) ==
            IF h.err # QOBJ_SUCCESS
            THEN [m |-> h.m, mesh |-> mesh, map |-> h.map, keys |-> <<>>,
                  err |-> h.err]
            ELSE Indexed(nr, h,
                         [mesh EXCEPT !.idata = Store(@, mesh.numIndices, h.val),
                                      !.numIndices = @ + 1])
        Normalized(nr) ==
            IF nr.invalid
            THEN [m |-> m, mesh |-> mesh, map |-> map, keys |-> <<>>,
                  err |-> QOBJ_ERROR_INVALID_FILE]
            ELSE Looked(nr, _qobj_hashmap_get_or_add(m, map, nr.v, mesh.numVertices))
    IN Normalized(NormalizeRef(mesh, v, P.size, T.size, N.size))

\* P, T, N: the pools (numPositions = P.size, positions = P.data, ...).
\* keys: the references that went through the map (history only).
_qobj_add_vertex(m, mesh, map, v, P, T, N) ==
    LET insertIdx == mesh.numVertices * mesh.vertexStride
        Indexed(nr, h, mesh1) ==
            IF h.val < mesh.numVertices
            THEN [m |-> h.m, mesh |-> mesh1, map |-> h.map, keys |-> <<nr.v>>,
                  err |-> QOBJ_SUCCESS]
            ELSE [m |-> h.m,
                  mesh |-> [mesh1 EXCEPT !.numVertices = @ + 1,
                                         !.vdata = WriteVertex(mesh, nr.v, insertIdx,
                                                              P, T, N)],
                  map |-> h.map, keys |-> <<nr.v>>, err |-> QOBJ_SUCCESS]
        Looked(nr, h) ==
            IF h.err # QOBJ_SUCCESS
            THEN [m |-> h.m, mesh |-> mesh, map |-> h.map, keys |-> <<>>,
                  err |-> h.err]
            ELSE Indexed(nr, h,
                         [mesh EXCEPT !.idata = Store(@, mesh.numIndices, h.val),
                                      !.numIndices = @ + 1])
        Normalized(nr) ==
            IF nr.invalid
            THEN [m |-> m, mesh |-> mesh, map |-> map, keys |-> <<>>,
                  err |-> QOBJ_ERROR_INVALID_FILE]
            ELSE Looked(nr, _qobj_hashmap_get_or_add(m, map, nr.v, mesh.numVertices))
    IN Normalized(NormalizeRef(mesh, v, P.size, T.size, N.size))

\* _qobj_add_triangle adding the third vertex before the second
_qobj_add_triangle_swapped(m, mesh, map, va, vb, vc, P, T, N) ==
    LET fail(mm, e) == [m |-> mm, mesh |-> mesh, map |-> map, keys |-> <<>>,
                        err |-> e]
        Third(a, b, c) == [c EXCEPT !.keys = a.keys \o b.keys \o @]
        Second(a, b) ==
            IF b.err # QOBJ_SUCCESS THEN [b EXCEPT !.keys = a.keys \o @]
            ELSE Third(a, b, _qobj_add_vertex(b.m, b.mesh, b.map, vb, P, T, N))
        First(a) ==
            IF a.err # QOBJ_SUCCESS THEN a
            ELSE Second(a, _qobj_add_vertex(a.m, a.mesh, a.map, vc, P, T, N))
        VerticesResized(mesh1, r2) ==
            IF r2.err # QOBJ_SUCCESS
            THEN [fail(r2.m, r2.err) EXCEPT !.mesh = mesh1]
            ELSE First(_qobj_add_vertex(r2.m,
                           [mesh1 EXCEPT !.vertices = r2.buffer,
                                         !.vertexCap = r2.elemCap],
                           map, va, P, T, N))
        IndicesResized(r1, mesh1) ==
            IF r1.err # QOBJ_SUCCESS THEN fail(r1.m, r1.err)
            ELSE VerticesResized(mesh1,
                     _qobj_maybe_resize_array(r1.m, mesh1.vertices,
                                              mesh1.numVertices + 3, mesh1.vertexCap))
        Indices(r1) ==
            IndicesResized(r1, [mesh EXCEPT !.indices = r1.buffer,
                                            !.indexCap = r1.elemCap])
    IN Indices(_qobj_maybe_resize_array(m, mesh.indices, mesh.numIndices + 3,
                                        mesh.indexCap))

_qobj_add_triangle(m, mesh, map, va, vb, vc, P, T, N) ==
    LET fail(mm, e) == [m |-> mm, mesh |-> mesh, map |-> map, keys |-> <<>>,
                        err |-> e]
        Third(a, b, c) == [c EXCEPT !.keys = a.keys \o b.keys \o @]
        Second(a, b) ==
            IF b.err # QOBJ_SUCCESS THEN [b EXCEPT !.keys = a.keys \o @]
            ELSE Third(a, b, _qobj_add_vertex(b.m, b.mesh, b.map, vc, P, T, N))
        First(a) ==
            IF a.err # QOBJ_SUCCESS THEN a
            ELSE Second(a, _qobj_add_vertex(a.m, a.mesh, a.map, vb, P, T, N))
        VerticesResized(mesh1, r2) ==
            IF r2.err # QOBJ_SUCCESS
            THEN [fail(r2.m, r2.err) EXCEPT !.mesh = mesh1]
            ELSE First(_qobj_add_vertex(r2.m,
                           [mesh1 EXCEPT !.vertices = r2.buffer,
                                         !.vertexCap = r2.elemCap],
                           map, va, P, T, N))
        IndicesResized(r1, mesh1) ==
            IF r1.err # QOBJ_SUCCESS THEN fail(r1.m, r1.err)
            ELSE VerticesResized(mesh1,
                     _qobj_maybe_resize_array(r1.m, mesh1.vertices,
                                              mesh1.numVertices + 3, mesh1.vertexCap))
        Indices(r1) ==
            IndicesResized(r1, [mesh EXCEPT !.indices = r1.buffer,
                                            !.indexCap = r1.elemCap])
    IN Indices(_qobj_maybe_resize_array(m, mesh.indices, mesh.numIndices + 3,
                                        mesh.indexCap))

-----------------------------------------------------------------------------
(* The input *)

\* The families of lazily produced files.  "refs": position-only faces in
\* one mesh; "formats": faces of the four formats in one mesh, over pools of
\* at most one position; "materials": usemtl lines and position-only faces
\* without oddities.
Families == {"refs", "formats", "materials"}

\* the family of lazily produced material files, read by qobj_load_mtl
MtlFamilies == {"mtl"}

Lazy == src \in Families \cup MtlFamilies

Limits ==
    CASE src = "refs" ->
           [pos |-> MaxPositions, normal |-> 0, tex |-> 0,
            specs |-> {QOBJ_VERTEX_SPEC_POSITION}, names |-> {},
            odd |-> MaxOdd, meshes |-> MaxMeshes - 1, tris |-> MaxTriangles]
      [] src = "formats" ->
           [pos |-> MaxPositions - 1, normal |-> MaxNormals, tex |-> MaxTexCoords,
            specs |-> {QOBJ_VERTEX_SPEC_POSITION, QOBJ_VERTEX_SPEC_POSITION_TEX_COORD,
                       QOBJ_VERTEX_SPEC_POSITION_NORMAL,
                       QOBJ_VERTEX_SPEC_POSITION_TEX_COORD_NORMAL},
            names |-> {}, odd |-> MaxOdd, meshes |-> MaxMeshes - 1,
            tris |-> MaxTriangles]
      [] OTHER ->
           [pos |-> MaxPositions - 1, normal |-> 0, tex |-> 0,
            specs |-> {QOBJ_VERTEX_SPEC_POSITION}, names |-> {"A", "B"},
            odd |-> 0, meshes |-> MaxMeshes, tris |-> MaxTriangles + 1]

IsPrefix(a, b) == Len(a) <= Len(b) /\ SubSeq(b, 1, Len(a)) = a

\* the streams a handler may find: the script, or the known part of the
\* lazily produced stream continued by one of the forms
Feed(Forms) == IF Lazy THEN {L \in Forms : IsPrefix(inp, L)} ELSE {inp}

\* at most one atom of a lazily produced stream is known and not consumed
Accept(rest) == Lazy => Len(rest) <= 1

\* atoms a line may start with
LineStart == {W("f"), W("usemtl"), W("xyz"), EOF}

\* the components of entry i (from 1) of a pool of a lazily produced file
Floats(base, i) == <<F(base + 10 * i), SP, F(base + 10 * i + 1), SP,
                     F(base + 10 * i + 2)>>

VForms == {<<W("v"), SP>> \o Floats(1000, positions.size + 1) \o <<NL>>}
VnForms == {<<W("vn"), SP>> \o Floats(2000, normals.size + 1) \o <<NL>>}
VtForms == {<<W("vt"), SP>> \o Floats(3000, texCoords.size + 1) \o <<NL>>}

IgnoredWords == {"o", "g", "s", "mtllib"}

\* lines that may follow a line made of an ignored command alone
SwallowLines ==
    {<<W("v"), SP>> \o Floats(1000, positions.size + 1) \o <<NL>>,
     <<W("xyz"), NL>>, <<NL>>, <<EOF>>}

SkipForms ==
    LET cmds == {<<W("#")>>, <<W("#"), W("A")>>} \cup {<<W(x)>> : x \in IgnoredWords} IN
    {c \o <<SP, W("A"), NL>> : c \in cmds}
    \cup {c \o <<SP, W("A"), EOF>> : c \in cmds}
    \cup {c \o <<NL>> \o l : c \in cmds, l \in SwallowLines}

UsemtlForms == {<<W("usemtl"), SP, W(x), NL>> : x \in Limits.names}

UnknownForms == {<<W("xyz"), SP>>, <<W("xyz"), NL>>, <<SL, I(1), NL>>}

EmptyForms == {<<NL>>, <<SP>>}

EOFForms == {<<EOF>>} \cup {<<x, EOF>> : x \in LineStart \ {EOF}}

\* the dispatch of the main loop: the branch a token takes
Command(curToken) ==
    IF curToken = <<>> THEN "empty"
    ELSE IF \/ curToken[1] = W("#")
            \/ \E x \in IgnoredWords : curToken = <<W(x)>>
    THEN "skip"
    ELSE IF curToken = <<W("v")>> THEN "v"
    ELSE IF curToken = <<W("vn")>> THEN "vn"
    ELSE IF curToken = <<W("vt")>> THEN "vt"
    ELSE IF curToken = <<W("f")>> THEN "f"
    ELSE IF curToken = <<W("usemtl")>> THEN "usemtl"
    ELSE "unsupported"

\* the first token of a line
FirstToken(line) == _qobj_next_token(line \o <<EOF>>).token

\* Files given in full.  "cube": 8 positions and 6 position-only quads;
\* "grow": 33 positions, 10 triangles without a shared corner and two more
\* with the three corners left, which fill the position pool, the buffers
\* and the map of a mesh beyond their first capacities (33 keys: the map is
\* doubled twice); "collide": 66 positions and
\* 7 triangles whose keys collide in the map before and after it is doubled.
ScriptNames == {"cube", "grow", "collide"}

RECURSIVE VLines(_, _)
VLines(i, n) ==
    IF i > n THEN <<>>
    ELSE <<W("v"), SP>> \o Floats(1000, i) \o <<NL>> \o VLines(i + 1, n)

FLine(refs) ==
    LET RECURSIVE line(_)
        line(k) == IF k > Len(refs) THEN <<NL>>
                   ELSE <<SP, I(refs[k])>> \o line(k + 1)
    IN <<W("f")>> \o line(1)

RECURSIVE Triangles(_, _)
Triangles(k, n) ==
    IF k >= n THEN <<>>
    ELSE FLine(<<3 * k + 1, 3 * k + 2, 3 * k + 3>>) \o Triangles(k + 1, n)

Script(name) ==
    IF name = "cube"
    THEN VLines(1, 8)
         \o FLine(<<1, 2, 3, 4>>) \o FLine(<<5, 8, 7, 6>>) \o FLine(<<1, 5, 6, 2>>)
         \o FLine(<<2, 6, 7, 3>>) \o FLine(<<3, 7, 8, 4>>) \o FLine(<<5, 1, 4, 8>>)
         \o <<EOF>>
    ELSE IF name = "grow"
    THEN VLines(1, 33) \o Triangles(0, 10) \o FLine(<<31, 1, 2>>)
         \o FLine(<<32, 33, 3>>) \o <<EOF>>
    \* positions 1, 33 and 65 have the same hash modulo 32, positions 1 and 65
    \* modulo 64; the 16th distinct key doubles the table
    ELSE VLines(1, 66) \o FLine(<<1, 33, 65>>) \o Triangles(1, 6)
         \o FLine(<<65, 1, 33>>) \o <<EOF>>

-----------------------------------------------------------------------------
(* qobj_load_obj *)

Mem(fail) == [live |-> live, n |-> 0, fail |-> fail, bad |-> badFree]

\* the attempts of a handler that may be made to fail, the handler making n
\* attempts when none fails; a handler gives up at its first failure
FailPoints(n) == IF oomLeft > 0 THEN {{}} \cup {{k} : k \in 1..n} ELSE {{}}

NoPool == [ptr |-> NULL, size |-> 0, cap |-> 0, data |-> <<>>]
Names == {<<>>, <<W("A")>>, <<W("B")>>}     \* the material names of the inputs

\* History.  odd: the oddities of a lazily produced file so far; swallowed:
\* first tokens of the lines read as the rest of an ignored command; unknown: a line starting with an unsupported token was
\* read; order[i]: the distinct references handed to map i, in the order of
\* their first lookup; keys[i], specKeys[i]: per index written to mesh i,
\* the reference handed to the map and the reference with every negative
\* component counted from the end of its pool; face: the references of the
\* face being read, as read; badRef: a reference with a zero or out of
\* range component was read; byName[x]: indices added while x was active;
\* atEOF: the branch of the token that the end of the stream terminated;
\* mixed: a reference of a face was not of the format of its first one;
\* short: the references of a face ended before its third one;
\* mlines, fresh, touched, early, nullWrite: the command lines of a material
\* file read so far, a newmtl was the last command, the materials a later
\* command wrote to, a property command came before the first newmtl, a
\* block that was not allocated was written.
NoFace == [refs |-> <<>>, start |-> 0, mesh |-> 0, valid |-> TRUE, done |-> FALSE]
NoGhost == [odd |-> 0, swallowed |-> <<>>, unknown |-> FALSE, order |-> <<>>, keys |-> <<>>,
            specKeys |-> <<>>, face |-> NoFace, badRef |-> FALSE,
            byName |-> [x \in Names |-> 0],
            mlines |-> 0, fresh |-> FALSE, touched |-> <<>>, early |-> FALSE,
            nullWrite |-> FALSE, atEOF |-> "empty", mixed |-> FALSE,
            short |-> FALSE]

\* the paths of the calls
ObjPath == <<"m", ".", "o", "b", "j">>
MtlPath == <<"m", ".", "m", "t", "l">>
Paths == {ObjPath, MtlPath, <<"m", ".", "t", "x", "t">>, <<"o", "b", "j">>}

Init ==
    /\ src \in Families \cup ScriptNames \cup MtlFamilies
    /\ path \in IF src \in MtlFamilies THEN {MtlPath, ObjPath}
                ELSE IF src \in Families THEN {ObjPath} ELSE Paths
    /\ inp = IF Lazy THEN <<>> ELSE Script(src)
    /\ pc = IF src \in MtlFamilies THEN "mtl_open" ELSE "open"
    /\ mtl = [numMaterials |-> 0, materials |-> NULL, arr |-> <<>>, curMaterial |-> 0]
    /\ errorCode = QOBJ_SUCCESS
    /\ live = {}
    /\ badFree = {}
    /\ oomLeft = MaxAllocFailures
    /\ positions = NoPool
    /\ normals = NoPool
    /\ texCoords = NoPool
    /\ numMeshes = 0
    /\ meshes = [ptr |-> NULL, arr |-> <<>>]
    /\ meshVertexMaps = [ptr |-> NULL, arr |-> <<>>]
    /\ curMaterial = <<>>
    /\ curMesh = UINT32_MAX
    /\ firstVertex = ZeroRef
    /\ v1 = ZeroRef
    /\ v2 = ZeroRef
    /\ spec = 0
    /\ gh = NoGhost

\* *numMeshes = 0; *meshes = NULL; fopen
Open ==
    /\ pc = "open"
    /\ \E opened \in BOOLEAN :
         IF opened
         THEN pc' = "alloc" /\ errorCode' = errorCode
         ELSE pc' = "done" /\ errorCode' = QOBJ_ERROR_IO
    /\ UNCHANGED <<src, path, mtl,
                   inp, live, badFree, oomLeft, positions, normals,
                   texCoords, numMeshes, meshes, meshVertexMaps, curMaterial,
                   curMesh, firstVertex, v1, v2, spec, gh>>

\* "allocate memory" and "ensure memory was properly allocated".
\* free(meshes) is given the address the caller passed, which is no heap
\* block: the call may return or abort.
LoadAlloc ==
    /\ pc = "alloc"
    /\ \E fail \in {f \in SUBSET (1..5) : Cardinality(f) <= oomLeft} :
       LET a1 == Malloc(Mem(fail), <<"positions", 0, 0>>)
           a2 == Malloc(a1.m, <<"normals", 0, 0>>)
           a3 == Malloc(a2.m, <<"texCoords", 0, 0>>)
           a4 == Malloc(a3.m, <<"meshes", 0, 0>>)
           a5 == Malloc(a4.m, <<"meshVertexMaps", 0, 0>>)
           pool(p) == [ptr |-> p, size |-> 0, cap |-> InitialCap, data |-> <<>>]
           f1 == IF a1.p # NULL THEN Free(a5.m, a1.p) ELSE a5.m
           f2 == IF a2.p # NULL THEN Free(f1, a2.p) ELSE f1
           f3 == IF a3.p # NULL THEN Free(f2, a3.p) ELSE f2
           f4 == IF CallerOut # NULL THEN Free(f3, CallerOut) ELSE f3
           f5 == IF a5.p # NULL THEN Free(f4, a5.p) ELSE f4
           failed == NULL \in {a1.p, a2.p, a3.p, a4.p, a5.p}
           mm == IF failed THEN f5 ELSE a5.m
       IN
       /\ positions' = pool(a1.p)
       /\ normals' = pool(a2.p)
       /\ texCoords' = pool(a3.p)
       /\ meshes' = [ptr |-> a4.p, arr |-> IF a4.p = NULL THEN <<>> ELSE <<ZeroMesh>>]
       /\ meshVertexMaps' = [ptr |-> a5.p, arr |-> IF a5.p = NULL THEN <<>> ELSE <<ZeroMap>>]
       /\ live' = mm.live
       /\ badFree' = mm.bad
       /\ oomLeft' = oomLeft - Cardinality(fail)
       /\ IF failed
          THEN /\ errorCode' = QOBJ_ERROR_OUT_OF_MEM
               /\ pc' \in {"done", "aborted"}
          ELSE /\ errorCode' = QOBJ_SUCCESS
               /\ pc' = "loop"
    /\ UNCHANGED <<src, path, mtl,
                   inp, numMeshes, curMaterial, curMesh, firstVertex,
                   v1, v2, spec, gh>>

\* the loop ends when the token is terminated by the end of the stream
LoopEOF ==
    /\ pc = "loop"
    /\ \E s \in Feed(EOFForms) :
       LET t == _qobj_next_token(s) IN
       /\ t.ok /\ t.endCh.k = "eof"
       /\ inp' = t.rest
       /\ gh' = [gh EXCEPT !.unknown = @ \/ Command(t.token) = "unsupported",
                           !.atEOF = Command(t.token)]
    /\ pc' = "cleanup"
    /\ UNCHANGED <<src, path, mtl,
                   errorCode, live, badFree, oomLeft, positions, normals,
                   texCoords, numMeshes, meshes, meshVertexMaps, curMaterial,
                   curMesh, firstVertex, v1, v2, spec>>

\* an empty token: continue
CmdEmpty ==
    /\ pc = "loop"
    /\ \E s \in Feed(EmptyForms) :
       LET t == _qobj_next_token(s) IN
       /\ t.ok /\ t.endCh.k # "eof" /\ Command(t.token) = "empty"
       /\ Accept(t.rest)
       /\ inp' = t.rest
    /\ UNCHANGED <<src, path, mtl,
                   pc, errorCode, live, badFree, oomLeft, positions, normals,
                   texCoords, numMeshes, meshes, meshVertexMaps, curMaterial,
                   curMesh, firstVertex, v1, v2, spec, gh>>

\* comments and ignored commands: the terminator of the token is a space
\* or a newline here, so _qobj_fgets is called
CmdSkip ==
    /\ pc = "loop"
    /\ \E s \in Feed(SkipForms) :
       LET t == _qobj_next_token(s)
           g == IF isspace(t.endCh) THEN _qobj_fgets(t.rest)
                ELSE [ok |-> TRUE, token |-> <<>>, raw |-> <<>>, rest |-> t.rest]
           lost == IF t.endCh.k = "nl" /\ FirstToken(g.raw) # <<>>
                   THEN <<FirstToken(g.raw)>> ELSE <<>>
       IN
       /\ t.ok /\ t.endCh.k # "eof" /\ Command(t.token) = "skip"
       /\ g.ok /\ Accept(g.rest)
       /\ Lazy /\ t.endCh.k = "nl" => gh.odd < Limits.odd
       /\ inp' = g.rest
       /\ gh' = [gh EXCEPT
                   !.odd = IF Lazy /\ t.endCh.k = "nl" THEN @ + 1 ELSE @,
                   !.swallowed = @ \o lost,
                   !.unknown = @ \/ (lost # <<>> /\ Command(lost[1]) = "unsupported")]
    /\ UNCHANGED <<src, path, mtl,
                   pc, errorCode, live, badFree, oomLeft, positions, normals,
                   texCoords, numMeshes, meshes, meshVertexMaps, curMaterial,
                   curMesh, firstVertex, v1, v2, spec>>

\* the branches "v", "vn" and "vt": the floats are stored at the end of the
\* pool, then the pool grows if it is full
PoolAppend(pool, elemSize, s, fail) ==
    LET insertIdx == pool.size * elemSize
        r == Fscanf(s, <<"f", "ws", "f", "ws", "f", "ws">>, <<>>)
        n == IF r.n < 0 THEN 0 ELSE r.n
        stored == IF n > elemSize THEN elemSize ELSE n   \* vt: the third is a dummy
        RECURSIVE put(_, _)
        put(data, j) == IF j > stored THEN data
                        ELSE put(Store(data, insertIdx + j - 1, r.vals[j]), j + 1)
        data1 == LET d == put(pool.data, 1) IN
                 IF Len(d) < insertIdx + elemSize
                 THEN Store(d, insertIdx + elemSize - 1, Uninit) ELSE d
        rs == _qobj_maybe_resize_array(Mem(fail), pool.ptr, pool.size + 1, pool.cap)
    IN [ok |-> r.ok, rest |-> r.rest, err |-> rs.err, m |-> rs.m,
        pool |-> [ptr |-> rs.buffer, size |-> pool.size + 1, cap |-> rs.elemCap,
                  data |-> data1]]

CmdV ==
    /\ pc = "loop"
    /\ Lazy => positions.size < Limits.pos
    /\ \E s \in Feed(VForms) :
       LET t == _qobj_next_token(s) IN
       /\ t.ok /\ t.endCh.k # "eof" /\ Command(t.token) = "v"
       /\ \E fail \in FailPoints(1) :
          LET a == PoolAppend(positions, QOBJ_ATTRIB_SIZE_POSITION, t.rest, fail) IN
          /\ a.ok /\ Accept(a.rest) /\ fail \subseteq 1..a.m.n
          /\ inp' = a.rest
          /\ positions' = a.pool
          /\ live' = a.m.live /\ badFree' = a.m.bad
          /\ oomLeft' = oomLeft - Cardinality(fail)
          /\ errorCode' = a.err
          /\ pc' = IF a.err # QOBJ_SUCCESS THEN "cleanup" ELSE "loop"
    /\ UNCHANGED <<src, path, mtl,
                   normals, texCoords, numMeshes, meshes, meshVertexMaps,
                   curMaterial, curMesh, firstVertex, v1, v2, spec, gh>>

CmdVn ==
    /\ pc = "loop"
    /\ Lazy => normals.size < Limits.normal
    /\ \E s \in Feed(VnForms) :
       LET t == _qobj_next_token(s) IN
       /\ t.ok /\ t.endCh.k # "eof" /\ Command(t.token) = "vn"
       /\ \E fail \in FailPoints(1) :
          LET a == PoolAppend(normals, QOBJ_ATTRIB_SIZE_NORMAL, t.rest, fail) IN
          /\ a.ok /\ Accept(a.rest) /\ fail \subseteq 1..a.m.n
          /\ inp' = a.rest
          /\ normals' = a.pool
          /\ live' = a.m.live /\ badFree' = a.m.bad
          /\ oomLeft' = oomLeft - Cardinality(fail)
          /\ errorCode' = a.err
          /\ pc' = IF a.err # QOBJ_SUCCESS THEN "cleanup" ELSE "loop"
    /\ UNCHANGED <<src, path, mtl,
                   positions, texCoords, numMeshes, meshes, meshVertexMaps,
                   curMaterial, curMesh, firstVertex, v1, v2, spec, gh>>

CmdVt ==
    /\ pc = "loop"
    /\ Lazy => texCoords.size < Limits.tex
    /\ \E s \in Feed(VtForms) :
       LET t == _qobj_next_token(s) IN
       /\ t.ok /\ t.endCh.k # "eof" /\ Command(t.token) = "vt"
       /\ \E fail \in FailPoints(1) :
          LET a == PoolAppend(texCoords, QOBJ_ATTRIB_SIZE_TEX_COORDS, t.rest, fail) IN
          /\ a.ok /\ Accept(a.rest) /\ fail \subseteq 1..a.m.n
          /\ inp' = a.rest
          /\ texCoords' = a.pool
          /\ live' = a.m.live /\ badFree' = a.m.bad
          /\ oomLeft' = oomLeft - Cardinality(fail)
          /\ errorCode' = a.err
          /\ pc' = IF a.err # QOBJ_SUCCESS THEN "cleanup" ELSE "loop"
    /\ UNCHANGED <<src, path, mtl,
                   positions, normals, numMeshes, meshes, meshVertexMaps,
                   curMaterial, curMesh, firstVertex, v1, v2, spec, gh>>

\* "usemtl": the rest of the line is the active material, no mesh is active
CmdUsemtl ==
    /\ pc = "loop"
    /\ \E s \in Feed(UsemtlForms) :
       LET t == _qobj_next_token(s)
           g == _qobj_fgets(t.rest)
       IN
       /\ t.ok /\ t.endCh.k # "eof" /\ Command(t.token) = "usemtl"
       /\ g.ok /\ Accept(g.rest)
       /\ inp' = g.rest
       /\ curMaterial' = g.token
    /\ curMesh' = UINT32_MAX
    /\ UNCHANGED <<src, path, mtl,
                   pc, errorCode, live, badFree, oomLeft, positions, normals,
                   texCoords, numMeshes, meshes, meshVertexMaps, firstVertex,
                   v1, v2, spec, gh>>

\* any other token
CmdUnknown ==
    /\ pc = "loop"
    /\ \E s \in Feed(UnknownForms) :
       LET t == _qobj_next_token(s) IN
       /\ t.ok /\ t.endCh.k # "eof" /\ Command(t.token) = "unsupported"
       /\ Accept(t.rest)
       /\ inp' = t.rest
    /\ errorCode' = QOBJ_ERROR_UNSUPPORTED_DATA_TYPE
    /\ pc' = "cleanup"
    /\ gh' = [gh EXCEPT !.unknown = TRUE]
    /\ UNCHANGED <<src, path, mtl,
                   live, badFree, oomLeft, positions, normals, texCoords,
                   numMeshes, meshes, meshVertexMaps, curMaterial, curMesh,
                   firstVertex, v1, v2, spec>>

-----------------------------------------------------------------------------
(* The "f" branch *)

FmtOf(sp) ==
    CASE sp = QOBJ_VERTEX_SPEC_POSITION -> <<"d">>
      [] sp = QOBJ_VERTEX_SPEC_POSITION_TEX_COORD -> <<"d", "/", "d">>
      [] sp = QOBJ_VERTEX_SPEC_POSITION_NORMAL -> <<"d", "/", "/", "d">>
      [] OTHER -> <<"d", "/", "d", "/", "d">>

\* vert keeps the fields for which nothing was converted
_qobj_read_vertex_ref(s, sp, vert) ==
    LET r == Fscanf(s, FmtOf(sp), <<>>)
        c(j, old) == IF r.n >= j THEN r.vals[j] ELSE old
    IN
    [ok |-> r.ok, numRead |-> r.n, rest |-> r.rest,
     vert |-> CASE sp = QOBJ_VERTEX_SPEC_POSITION ->
                     QOBJvertexRef(c(1, vert.pos), 0, 0)
                [] sp = QOBJ_VERTEX_SPEC_POSITION_TEX_COORD ->
                     QOBJvertexRef(c(1, vert.pos), 0, c(2, vert.texCoord))
                [] sp = QOBJ_VERTEX_SPEC_POSITION_NORMAL ->
                     QOBJvertexRef(c(1, vert.pos), c(2, vert.normal), 0)
                [] OTHER ->
                     QOBJvertexRef(c(1, vert.pos), c(3, vert.normal),
                                   c(2, vert.texCoord))]

\* "read first vertex + determine format"
ReadFirstVertex(s) ==
    LET r == Fscanf(s, <<"d", "/", "d", "/", "d">>, <<>>)
        g == Fgetc(r.rest)
        r2 == Fscanf(g.rest, <<"d">>, <<>>)
    IN
    CASE r.n = 1 /\ g.ch.k = "/" ->
           [ok |-> r.ok /\ g.ok /\ r2.ok, rest |-> r2.rest,
            spec |-> QOBJ_VERTEX_SPEC_POSITION_NORMAL,
            vert |-> QOBJvertexRef(r.vals[1], IF r2.n = 1 THEN r2.vals[1] ELSE 0, 0)]
      [] r.n = 1 /\ g.ch.k # "/" ->
           [ok |-> r.ok /\ g.ok, rest |-> g.rest,
            spec |-> QOBJ_VERTEX_SPEC_POSITION,
            vert |-> QOBJvertexRef(r.vals[1], 0, 0)]
      [] r.n = 2 ->
           [ok |-> r.ok, rest |-> r.rest,
            spec |-> QOBJ_VERTEX_SPEC_POSITION_TEX_COORD,
            vert |-> QOBJvertexRef(r.vals[1], 0, r.vals[2])]
      [] r.n = 3 ->
           [ok |-> r.ok, rest |-> r.rest,
            spec |-> QOBJ_VERTEX_SPEC_POSITION_TEX_COORD_NORMAL,
            vert |-> QOBJvertexRef(r.vals[1], r.vals[3], r.vals[2])]
      [] OTHER ->
           [ok |-> r.ok, rest |-> r.rest, spec |-> 0, vert |-> ZeroRef]

\* FindMesh without the search: every usemtl line starts a new mesh
FindNoMesh(name) == UINT32_MAX

\* "if no mesh is active yet, try to find an existing mesh with the same
\* material": the first mesh of that name, or UINT32_MAX
FindMesh(name) ==
    IF \E i \in 0..(numMeshes - 1) : meshes.arr[i + 1].mname = name
    THEN CHOOSE i \in 0..(numMeshes - 1) :
            /\ meshes.arr[i + 1].mname = name
            /\ \A j \in 0..(i - 1) : meshes.arr[j + 1].mname # name
    ELSE UINT32_MAX

\* "if no valid active mesh was found, create a new one"
CreateMesh(m, sp) ==
    LET i == numMeshes
        fail(mm, e, ms, vs) ==
            [m |-> mm, err |-> e, meshes |-> ms, maps |-> vs, numMeshes |-> numMeshes]
        grow(arr, zero) == IF Len(arr) < i + 1 THEN Append(arr, zero) ELSE arr
        a == Realloc(m, meshes.ptr)
    IN
    IF a.p = NULL THEN fail(a.m, QOBJ_ERROR_OUT_OF_MEM, meshes, meshVertexMaps)
    ELSE
    LET ms1 == [ptr |-> a.p, arr |-> grow(meshes.arr, ZeroMesh)]
        b == Realloc(a.m, meshVertexMaps.ptr)
    IN
    IF b.p = NULL THEN fail(b.m, QOBJ_ERROR_OUT_OF_MEM, ms1, meshVertexMaps)
    ELSE
    LET vs1 == [ptr |-> b.p, arr |-> grow(meshVertexMaps.arr, ZeroMap)]
        c == _qobj_mesh_create(b.m, i, sp, curMaterial)
        ms2 == [ms1 EXCEPT !.arr[i + 1] = c.mesh]
    IN
    IF c.err # QOBJ_SUCCESS THEN fail(c.m, c.err, ms2, vs1)
    ELSE
    LET d == _qobj_hashmap_create(c.m, i)
        vs2 == [vs1 EXCEPT !.arr[i + 1] = d.map]
    IN
    IF d.err # QOBJ_SUCCESS
    THEN fail(_qobj_mesh_free(d.m, ms2.arr[i + 1]), d.err, ms2, vs2)
    ELSE [m |-> d.m, err |-> QOBJ_SUCCESS, meshes |-> ms2, maps |-> vs2,
          numMeshes |-> numMeshes + 1]

\* the reference with every negative component counted from the end of its
\* pool, as the file format defines it
SpecResolve(v) ==
    LET f(x, n) == IF x < 0 THEN x + n + 1 ELSE x IN
    QOBJvertexRef(f(v.pos, positions.size), f(v.normal, normals.size),
                  f(v.texCoord, texCoords.size))

\* a component that the format sp has is 0 or, resolved, out of its pool
RefBad(v, sp) ==
    LET r == SpecResolve(v)
        bad(x, n) == x < 1 \/ x > n
    IN \/ bad(r.pos, positions.size)
       \/ HasAttrib(sp, QOBJ_VERTEX_ATTRIB_NORMAL) /\ bad(r.normal, normals.size)
       \/ HasAttrib(sp, QOBJ_VERTEX_ATTRIB_TEX_COORDS) /\ bad(r.texCoord, texCoords.size)

NumOf(sp) == IF sp = QOBJ_VERTEX_SPEC_POSITION THEN 1
             ELSE IF sp = QOBJ_VERTEX_SPEC_POSITION_TEX_COORD_NORMAL THEN 3 ELSE 2

\* the references of a lazily produced file
RefAtoms(sp, a, b, c) ==
    CASE sp = QOBJ_VERTEX_SPEC_POSITION -> <<I(a)>>
      [] sp = QOBJ_VERTEX_SPEC_POSITION_TEX_COORD -> <<I(a), SL, I(b)>>
      [] sp = QOBJ_VERTEX_SPEC_POSITION_NORMAL -> <<I(a), SL, SL, I(c)>>
      [] OTHER -> <<I(a), SL, I(b), SL, I(c)>>

\* plain components (positive, in the pool) and odd ones
Plain(n) == 1..n
OddComp(n) == ((-(n + 1))..(n + 1)) \ (1..n)

\* references with plain components and, if the file may have one more
\* oddity, references with one odd component
Refs(sp) ==
    LET hasT == HasAttrib(sp, QOBJ_VERTEX_ATTRIB_TEX_COORDS)
        hasN == HasAttrib(sp, QOBJ_VERTEX_ATTRIB_NORMAL)
        A(odd) == IF odd THEN OddComp(positions.size) ELSE Plain(positions.size)
        B(odd) == IF ~hasT THEN {0}
                  ELSE IF odd THEN OddComp(texCoords.size) ELSE Plain(texCoords.size)
        C(odd) == IF ~hasN THEN {0}
                  ELSE IF odd THEN OddComp(normals.size) ELSE Plain(normals.size)
        R(oa, ob, oc) == {RefAtoms(sp, a, b, c) : a \in A(oa), b \in B(ob), c \in C(oc)}
    IN
    R(FALSE, FALSE, FALSE)
    \cup (IF gh.odd >= Limits.odd THEN {}
          ELSE R(TRUE, FALSE, FALSE)
               \cup (IF hasT THEN R(FALSE, TRUE, FALSE) ELSE {})
               \cup (IF hasN THEN R(FALSE, FALSE, TRUE) ELSE {}))

\* a component that the format sp has is not a positive index of its pool
RefOdd(v, sp) ==
    LET odd(x, n) == x < 1 \/ x > n IN
    \/ odd(v.pos, positions.size)
    \/ HasAttrib(sp, QOBJ_VERTEX_ATTRIB_NORMAL) /\ odd(v.normal, normals.size)
    \/ HasAttrib(sp, QOBJ_VERTEX_ATTRIB_TEX_COORDS) /\ odd(v.texCoord, texCoords.size)

\* the oddities of a lazily produced file after a reference was read
Odd(g, r, sp) ==
    IF Lazy /\ (r.numRead # NumOf(sp) \/ RefOdd(r.vert, sp) \/ r.rest = <<SL>>)
            /\ r.numRead > 0
    THEN g.odd + 1 ELSE g.odd

TotalIndices ==
    LET RECURSIVE sum(_)
        sum(n) == IF n = 0 THEN 0 ELSE meshes.arr[n].numIndices + sum(n - 1)
    IN sum(numMeshes)

\* after a reference of one or two components, fscanf looks at the next
\* character for a "/"
FaceFirstForms ==
    LET R(sp) == IF sp \in Limits.specs THEN Refs(sp) ELSE {} IN
    {<<W("f"), SP>> \o r \o <<SP>> :
        r \in R(QOBJ_VERTEX_SPEC_POSITION) \cup R(QOBJ_VERTEX_SPEC_POSITION_TEX_COORD)}
    \cup {<<W("f"), SP>> \o r :
        r \in R(QOBJ_VERTEX_SPEC_POSITION_NORMAL)
              \cup R(QOBJ_VERTEX_SPEC_POSITION_TEX_COORD_NORMAL)}
    \cup {<<W("f"), NL, x>> : x \in LineStart}

\* what may stand where a further reference of a face of format sp is read:
\* a reference of that format, one with more or with fewer components, the
\* next line, the end of the stream
RefEnds == {<<NL, x>> : x \in LineStart} \cup {<<EOF>>, <<SL>>, <<SP, NL, W("v")>>}

RefForms(sp) ==
    {<<SP>> \o r : r \in Refs(sp)}
    \cup (IF gh.odd >= Limits.odd THEN {}
          ELSE {<<SP>> \o RefAtoms(sp, 1, 1, 1) \o <<SL>>}
               \cup (IF sp # QOBJ_VERTEX_SPEC_POSITION THEN {<<SP, I(1), SP>>} ELSE {}))
    \cup RefEnds

\* the mesh the face being read is added to
Mesh == meshes.arr[curMesh + 1]

FaceFirst ==
    /\ pc = "loop"
    /\ \E s \in Feed(FaceFirstForms) :
       LET t == _qobj_next_token(s)
           f == ReadFirstVertex(t.rest)
           found == IF curMesh = UINT32_MAX THEN FindMesh(curMaterial) ELSE curMesh
       IN
       /\ t.ok /\ t.endCh.k # "eof" /\ Command(t.token) = "f"
       /\ f.ok /\ Accept(f.rest)
       /\ inp' = f.rest
       /\ firstVertex' = f.vert
       /\ spec' = f.spec
       /\ IF f.spec = 0
          THEN /\ errorCode' = QOBJ_ERROR_INVALID_FILE
               /\ pc' = "cleanup"
               /\ gh' = [gh EXCEPT !.short = TRUE]
               /\ UNCHANGED <<live, badFree, oomLeft, numMeshes, meshes,
                              meshVertexMaps, curMesh>>
          ELSE IF found # UINT32_MAX
          THEN /\ Lazy => TotalIndices < 3 * Limits.tris
               /\ curMesh' = found
               /\ pc' = "f_v1"
               /\ gh' = [gh EXCEPT
                     !.face = [refs |-> <<NormalizeRef(meshes.arr[found + 1], f.vert,
                                              positions.size, texCoords.size,
                                              normals.size).v>>,
                               start |-> meshes.arr[found + 1].numIndices,
                               mesh |-> found,
                               valid |-> ~RefBad(f.vert, f.spec), done |-> FALSE],
                     !.badRef = @ \/ RefBad(f.vert, f.spec),
                     !.odd = IF Lazy /\ RefOdd(f.vert, f.spec) THEN @ + 1 ELSE @]
               /\ UNCHANGED <<errorCode, live, badFree, oomLeft, numMeshes, meshes,
                              meshVertexMaps>>
          ELSE /\ Lazy => numMeshes < Limits.meshes /\ TotalIndices < 3 * Limits.tris
               /\ \E fail \in FailPoints(7) :
                  LET c == CreateMesh(Mem(fail), f.spec) IN
                  /\ fail \subseteq 1..c.m.n
                  /\ curMesh' = numMeshes
                  /\ live' = c.m.live /\ badFree' = c.m.bad
                  /\ oomLeft' = oomLeft - Cardinality(fail)
                  /\ meshes' = c.meshes
                  /\ meshVertexMaps' = c.maps
                  /\ numMeshes' = c.numMeshes
                  /\ errorCode' = c.err
                  /\ pc' = IF c.err # QOBJ_SUCCESS THEN "cleanup" ELSE "f_v1"
                  /\ gh' = IF c.err # QOBJ_SUCCESS THEN gh
                     ELSE [gh EXCEPT
                        !.face = [refs |-> <<NormalizeRef(c.meshes.arr[numMeshes + 1],
                                                 f.vert, positions.size, texCoords.size,
                                                 normals.size).v>>,
                                  start |-> 0, mesh |-> numMeshes,
                                  valid |-> ~RefBad(f.vert, f.spec), done |-> FALSE],
                        !.badRef = @ \/ RefBad(f.vert, f.spec),
                        !.odd = IF Lazy /\ RefOdd(f.vert, f.spec) THEN @ + 1 ELSE @,
                        !.order = Append(@, <<>>),
                        !.keys = Append(@, <<>>),
                        !.specKeys = Append(@, <<>>)]
    /\ UNCHANGED <<src, path, mtl,
                   positions, normals, texCoords, curMaterial, v1, v2>>

\* a reference read with the format sp is not of that format: fewer
\* components were converted, or a "/" follows it
Deviates(r, sp) ==
    r.numRead > 0 /\ (r.numRead # NumOf(sp) \/ (r.rest # <<>> /\ Head(r.rest) = SL))

\* the history of a reference read for the face
NoteRef(r, sp) ==
    [gh EXCEPT
       !.mixed = @ \/ Deviates(r, sp),
       !.short = @ \/ r.numRead < 0,
       !.face.refs = Append(@, NormalizeRef(Mesh, r.vert, positions.size,
                                            texCoords.size, normals.size).v),
       !.face.valid = @ /\ r.numRead = NumOf(sp) /\ ~RefBad(r.vert, sp),
       !.badRef = @ \/ (r.numRead = NumOf(sp) /\ RefBad(r.vert, sp)),
       !.odd = Odd(gh, r, sp)]

\* "read next 2 vertices": the first of them
FaceReadV1 ==
    /\ pc = "f_v1"
    /\ \E s \in Feed(RefForms(spec)) :
       LET r == _qobj_read_vertex_ref(s, spec, ZeroRef) IN
       /\ r.ok /\ Accept(r.rest)
       /\ inp' = r.rest
       /\ v1' = r.vert
       /\ IF r.numRead = 0
          THEN /\ errorCode' = QOBJ_ERROR_INVALID_FILE /\ pc' = "cleanup"
               /\ gh' = [gh EXCEPT !.short = TRUE]
          ELSE errorCode' = errorCode /\ pc' = "f_v2" /\ gh' = NoteRef(r, spec)
    /\ UNCHANGED <<src, path, mtl,
                   live, badFree, oomLeft, positions, normals, texCoords,
                   numMeshes, meshes, meshVertexMaps, curMaterial, curMesh,
                   firstVertex, v2, spec>>

\* "read next 2 vertices": the second
FaceReadV2 ==
    /\ pc = "f_v2"
    /\ \E s \in Feed(RefForms(spec)) :
       LET r == _qobj_read_vertex_ref(s, spec, ZeroRef) IN
       /\ r.ok /\ Accept(r.rest)
       /\ inp' = r.rest
       /\ v2' = r.vert
       /\ IF r.numRead = 0
          THEN /\ errorCode' = QOBJ_ERROR_INVALID_FILE /\ pc' = "cleanup"
               /\ gh' = [gh EXCEPT !.short = TRUE]
          ELSE errorCode' = errorCode /\ pc' = "tri" /\ gh' = NoteRef(r, spec)
    /\ UNCHANGED <<src, path, mtl,
                   live, badFree, oomLeft, positions, normals, texCoords,
                   numMeshes, meshes, meshVertexMaps, curMaterial, curMesh,
                   firstVertex, v1, spec>>

\* the references of one triangle added to the history
RECURSIVE AddOrder(_, _)
AddOrder(order, keys) ==
    IF keys = <<>> THEN order
    ELSE AddOrder(IF \E j \in 1..Len(order) : order[j] = Head(keys)
                  THEN order ELSE Append(order, Head(keys)),
                  Tail(keys))

NoteTriangle(g, keys) ==
    [g EXCEPT
       !.order[curMesh + 1] = AddOrder(@, keys),
       !.keys[curMesh + 1] = @ \o keys,
       !.specKeys[curMesh + 1] =
           @ \o <<SpecResolve(firstVertex), SpecResolve(v1), SpecResolve(v2)>>,
       !.byName[curMaterial] = @ + 3]

\* one round of "add vertices to mesh and continue reading, triangulating
\* face": a triangle, then the next reference
FaceTriangle ==
    /\ pc = "tri"
    /\ \E n \in {_qobj_add_triangle(Mem({}), Mesh, meshVertexMaps.arr[curMesh + 1],
                                     firstVertex, v1, v2, positions, texCoords,
                                     normals).m.n} :
       \E fail \in FailPoints(n) :
       \E t \in {_qobj_add_triangle(Mem(fail), Mesh, meshVertexMaps.arr[curMesh + 1],
                                     firstVertex, v1, v2, positions, texCoords,
                                     normals)} :
       /\ live' = t.m.live /\ badFree' = t.m.bad
       /\ oomLeft' = oomLeft - Cardinality(fail)
       /\ meshes' = [meshes EXCEPT !.arr[curMesh + 1] = t.mesh]
       /\ meshVertexMaps' = [meshVertexMaps EXCEPT !.arr[curMesh + 1] = t.map]
       /\ errorCode' = t.err
       /\ IF t.err # QOBJ_SUCCESS
          THEN /\ pc' = IF t.err = "HANG" THEN "hung" ELSE "cleanup"
               /\ UNCHANGED <<inp, v1, v2, gh>>
          ELSE \E s \in Feed(IF TotalIndices + 3 >= 3 * Limits.tris
                             THEN RefEnds ELSE RefForms(spec)) :
               \E r \in {_qobj_read_vertex_ref(s, spec, v2)} :
               \E g \in {NoteTriangle(gh, t.keys)} :
                  /\ r.ok /\ Accept(r.rest)
                  /\ inp' = r.rest
                  /\ v1' = v2
                  /\ v2' = r.vert
                  /\ IF r.numRead = 0 \/ r.numRead = -1
                     THEN /\ pc' = "loop"
                          /\ gh' = [g EXCEPT !.face.done = TRUE]
                     ELSE /\ pc' = "tri"
                          /\ gh' = [g EXCEPT
                                !.face.refs = Append(@, NormalizeRef(Mesh, r.vert,
                                                  positions.size, texCoords.size,
                                                  normals.size).v),
                                !.face.valid = @ /\ r.numRead = NumOf(spec)
                                                 /\ ~RefBad(r.vert, spec),
                                !.badRef = @ \/ (r.numRead = NumOf(spec)
                                                 /\ RefBad(r.vert, spec)),
                                !.mixed = @ \/ Deviates(r, spec),
                                !.odd = Odd(gh, r, spec)]
    /\ UNCHANGED <<src, path, mtl,
                   positions, normals, texCoords, numMeshes, curMaterial,
                   curMesh, firstVertex, spec>>

-----------------------------------------------------------------------------
(* Cleanup and release *)

RECURSIVE FreeMaps(_, _, _)
FreeMaps(m, arr, n) ==
    IF n = 0 THEN m
    ELSE _qobj_hashmap_free(FreeMaps(m, arr, n - 1), arr[n])

RECURSIVE FreeMeshes(_, _, _)
FreeMeshes(m, arr, n) ==
    IF n = 0 THEN m
    ELSE _qobj_mesh_free(FreeMeshes(m, arr, n - 1), arr[n])

qobj_free_obj(m, n, ms) ==
    IF ms.ptr = NULL \/ n = 0 THEN m
    ELSE Free(FreeMeshes(m, ms.arr, n), ms.ptr)

\* Cleanup without "*numMeshes = 0"
CleanupKeepsCount ==
    /\ pc = "cleanup"
    /\ LET m1 == FreeMaps(Mem({}), meshVertexMaps.arr, numMeshes)
           m2 == Free(m1, meshVertexMaps.ptr)
           m3 == IF errorCode # QOBJ_SUCCESS
                 THEN qobj_free_obj(m2, numMeshes, meshes) ELSE m2
           m4 == Free(Free(Free(m3, positions.ptr), normals.ptr), texCoords.ptr)
       IN
       /\ live' = m4.live
       /\ badFree' = m4.bad
       /\ numMeshes' = numMeshes
    /\ pc' = "done"
    /\ UNCHANGED <<src, path, mtl,
                   inp, errorCode, oomLeft, positions, normals, texCoords,
                   meshes, meshVertexMaps, curMaterial, curMesh, firstVertex,
                   v1, v2, spec, gh>>

\* "cleanup" of qobj_load_obj, up to its return
Cleanup ==
    /\ pc = "cleanup"
    /\ LET m1 == FreeMaps(Mem({}), meshVertexMaps.arr, numMeshes)
           m2 == Free(m1, meshVertexMaps.ptr)
           m3 == IF errorCode # QOBJ_SUCCESS
                 THEN qobj_free_obj(m2, numMeshes, meshes) ELSE m2
           m4 == Free(Free(Free(m3, positions.ptr), normals.ptr), texCoords.ptr)
       IN
       /\ live' = m4.live
       /\ badFree' = m4.bad
       /\ numMeshes' = IF errorCode # QOBJ_SUCCESS THEN 0 ELSE numMeshes
    /\ pc' = "done"
    /\ UNCHANGED <<src, path, mtl,
                   inp, errorCode, oomLeft, positions, normals, texCoords,
                   meshes, meshVertexMaps, curMaterial, curMesh, firstVertex,
                   v1, v2, spec, gh>>

\* the caller releases the result: qobj_free_obj(numMeshes, meshes)
FreeObj ==
    /\ pc = "done"
    /\ LET m1 == qobj_free_obj(Mem({}), numMeshes, meshes) IN
       /\ live' = m1.live
       /\ badFree' = m1.bad
    /\ pc' = "freed"
    /\ UNCHANGED <<src, path, mtl,
                   inp, errorCode, oomLeft, positions, normals, texCoords,
                   numMeshes, meshes, meshVertexMaps, curMaterial, curMesh,
                   firstVertex, v1, v2, spec, gh>>

-----------------------------------------------------------------------------
(* Materials *)

\* an indeterminate pointer: a field of a slot that was allocated and not
\* written
Wild == <<"wild", 0, 0>>
CallerOutMtl == <<"caller:&materials", 0, 0>>  \* the address held by the parameter materials

Color(r, g, b) == [r |-> r, g |-> g, b |-> b]

\* a material that is all zero: opacity, specular exponent and refraction
\* index are not set to 1
_qobj_default_material_zeroed ==
    [name |-> NULL, nameStr |-> <<>>,
     ambientColor |-> Color(0, 0, 0), diffuseColor |-> Color(0, 0, 0),
     specularColor |-> Color(0, 0, 0),
     ambientMapPath |-> NULL, diffuseMapPath |-> NULL, specularMapPath |-> NULL,
     normalMapPath |-> NULL,
     opacity |-> 0, specularExp |-> 0, refractionIndex |-> 0]

\* nameStr is the content of the block name
_qobj_default_material ==
    [name |-> NULL, nameStr |-> <<>>,
     ambientColor |-> Color(0, 0, 0), diffuseColor |-> Color(0, 0, 0),
     specularColor |-> Color(0, 0, 0),
     ambientMapPath |-> NULL, diffuseMapPath |-> NULL, specularMapPath |-> NULL,
     normalMapPath |-> NULL,
     opacity |-> 1, specularExp |-> 1, refractionIndex |-> 1]

\* a slot of the material array as malloc or realloc hands it out
UninitMaterial ==
    [name |-> Wild, nameStr |-> <<>>,
     ambientColor |-> Color(Uninit, Uninit, Uninit),
     diffuseColor |-> Color(Uninit, Uninit, Uninit),
     specularColor |-> Color(Uninit, Uninit, Uninit),
     ambientMapPath |-> Wild, diffuseMapPath |-> Wild, specularMapPath |-> Wild,
     normalMapPath |-> Wild,
     opacity |-> Uninit, specularExp |-> Uninit, refractionIndex |-> Uninit]

MapFields == {"ambientMapPath", "diffuseMapPath", "specularMapPath", "normalMapPath"}

_qobj_material_free(m, material) ==
    LET m1 == IF material.name # NULL THEN Free(m, material.name) ELSE m
        m2 == IF material.ambientMapPath # NULL
              THEN Free(m1, material.ambientMapPath) ELSE m1
        m3 == IF material.diffuseMapPath # NULL
              THEN Free(m2, material.diffuseMapPath) ELSE m2
        m4 == IF material.specularMapPath # NULL
              THEN Free(m3, material.specularMapPath) ELSE m3
    IN IF material.normalMapPath # NULL THEN Free(m4, material.normalMapPath) ELSE m4

RECURSIVE FreeMaterials(_, _, _)
FreeMaterials(m, arr, n) ==
    IF n = 0 THEN m
    ELSE _qobj_material_free(FreeMaterials(m, arr, n - 1), arr[n])

qobj_free_mtl(m, numMaterials, materials) ==
    IF materials.materials = NULL \/ numMaterials = 0 THEN m
    ELSE Free(FreeMaterials(m, materials.arr, numMaterials), materials.materials)

\* the dispatch of the main loop of qobj_load_mtl
MtlCommand(curToken) ==
    IF curToken = <<>> THEN "empty"
    ELSE IF \/ curToken[1] = W("#")
            \/ curToken = <<W("illum")>>
            \/ curToken = <<W("Tf")>>
    THEN "skip"
    ELSE IF curToken = <<W("newmtl")>> THEN "newmtl"
    ELSE IF curToken = <<W("Ka")>> THEN "ambientColor"
    ELSE IF curToken = <<W("Kd")>> THEN "diffuseColor"
    ELSE IF curToken = <<W("Ks")>> THEN "specularColor"
    ELSE IF curToken = <<W("d")>> THEN "opacity"
    ELSE IF curToken = <<W("Ns")>> THEN "specularExp"
    ELSE IF curToken = <<W("Ni")>> THEN "refractionIndex"
    ELSE IF curToken = <<W("map_Ka")>> THEN "ambientMapPath"
    ELSE IF curToken = <<W("map_Kd")>> THEN "diffuseMapPath"
    ELSE IF curToken = <<W("map_Ks")>> THEN "specularMapPath"
    ELSE IF curToken = <<W("map_Bump")>> THEN "normalMapPath"
    ELSE "none"

\* the lines of a lazily produced material file
MoreLines == gh.mlines < MaxLines
NewmtlForms == {<<W("newmtl"), SP, W(x), NL>> : x \in {"A", "B"}}
ColorForms == {<<W(c), SP, F(5), SP, F(6), SP, F(7), NL>> : c \in {"Ka", "Kd", "Ks"}}
ScalarForms == {<<W(c), SP, F(5), NL>> : c \in {"d", "Ns", "Ni"}}
MapForms == {<<W(c), SP, W("t.png"), NL>> :
                c \in {"map_Ka", "map_Kd", "map_Ks", "map_Bump"}}
MtlSkipForms == {<<W(c), SP, W("x"), NL>> : c \in {"#", "illum", "Tf"}}
MtlUnknownForms == {<<W("xyz"), NL>>, <<W("Ke"), SP>>, <<F(5), NL>>}
MtlEOFForms == {<<EOF>>, <<W("xyz"), EOF>>, <<W("newmtl"), EOF>>}

objvars == <<positions, normals, texCoords, numMeshes, meshes, meshVertexMaps,
             curMaterial, curMesh, firstVertex, v1, v2, spec>>

\* fopen
MtlOpen ==
    /\ pc = "mtl_open"
    /\ \E opened \in BOOLEAN :
         IF opened
         THEN pc' = "mtl_alloc" /\ errorCode' = errorCode
         ELSE pc' = "mtl_done" /\ errorCode' = QOBJ_ERROR_IO
    /\ UNCHANGED <<src, path, inp, live, badFree, oomLeft, mtl, gh, objvars>>

\* "allocate memory" of qobj_load_mtl: on failure free() is given materials,
\* the address of the pointer of the caller, which no allocation returned:
\* the call either stops the program or returns
MtlAlloc ==
    /\ pc = "mtl_alloc"
    /\ \E fail \in FailPoints(1) :
       \E a \in {Malloc(Mem(fail), <<"materials", 0, 0>>)} :
       \E m1 \in {IF a.p = NULL THEN Free(a.m, CallerOutMtl) ELSE a.m} :
          /\ live' = m1.live /\ badFree' = m1.bad
          /\ oomLeft' = oomLeft - Cardinality(fail)
          /\ mtl' = [numMaterials |-> 0, materials |-> a.p,
                     arr |-> IF a.p = NULL THEN <<>> ELSE <<UninitMaterial>>,
                     curMaterial |-> 0]
          /\ IF a.p = NULL
             THEN /\ errorCode' = QOBJ_ERROR_OUT_OF_MEM
                  /\ pc' \in {"mtl_done", "mtl_aborted"}
             ELSE errorCode' = QOBJ_SUCCESS /\ pc' = "mtl_loop"
    /\ UNCHANGED <<src, path, inp, gh, objvars>>

\* the end of the stream ends the token: break
MtlLoopEOF ==
    /\ pc = "mtl_loop"
    /\ \E s \in Feed(MtlEOFForms) :
       \E t \in {_qobj_next_token(s)} :
       /\ t.ok /\ t.endCh.k = "eof"
       /\ inp' = t.rest
       /\ gh' = [gh EXCEPT !.fresh = FALSE]
    /\ pc' = "mtl_cleanup"
    /\ UNCHANGED <<src, path, errorCode, live, badFree, oomLeft, mtl, objvars>>

\* an empty token: continue
MtlCmdEmpty ==
    /\ pc = "mtl_loop"
    /\ \E s \in Feed(EmptyForms) :
       \E t \in {_qobj_next_token(s)} :
       /\ t.ok /\ t.endCh.k # "eof" /\ MtlCommand(t.token) = "empty"
       /\ Accept(t.rest)
       /\ inp' = t.rest
    /\ gh' = [gh EXCEPT !.fresh = FALSE]
    /\ UNCHANGED <<src, path, pc, errorCode, live, badFree, oomLeft, mtl, objvars>>

\* comments and ignored commands
MtlCmdSkip ==
    /\ pc = "mtl_loop"
    /\ MoreLines
    /\ \E s \in Feed(MtlSkipForms) :
       \E t \in {_qobj_next_token(s)} :
       \E g \in {IF isspace(t.endCh) THEN _qobj_fgets(t.rest)
                 ELSE [ok |-> TRUE, token |-> <<>>, raw |-> <<>>, rest |-> t.rest]} :
       /\ t.ok /\ t.endCh.k # "eof" /\ MtlCommand(t.token) = "skip"
       /\ g.ok /\ Accept(g.rest)
       /\ inp' = g.rest
    /\ gh' = [gh EXCEPT !.mlines = @ + 1, !.fresh = FALSE]
    /\ UNCHANGED <<src, path, pc, errorCode, live, badFree, oomLeft, mtl, objvars>>

\* a token no branch of the loop takes: nothing is done, and the next token
\* is read
MtlCmdUnknown ==
    /\ pc = "mtl_loop"
    /\ MoreLines
    /\ \E s \in Feed(MtlUnknownForms) :
       \E t \in {_qobj_next_token(s)} :
       /\ t.ok /\ t.endCh.k # "eof" /\ MtlCommand(t.token) = "none"
       /\ Accept(t.rest)
       /\ inp' = t.rest
    /\ gh' = [gh EXCEPT !.mlines = @ + 1, !.unknown = TRUE, !.fresh = FALSE]
    /\ UNCHANGED <<src, path, pc, errorCode, live, badFree, oomLeft, mtl, objvars>>

\* realloc of the material array to n slots: the old slots are kept
GrowMaterials(arr, n) ==
    [j \in 1..n |-> IF j <= Len(arr) THEN arr[j] ELSE UninitMaterial]

\* "newmtl": the rest of the line is the name; the array grows by one slot,
\* which gets the default material and a name block.  The name block is
\* written without a check: with a NULL block the write either stops the
\* program or is lost.
MtlCmdNewmtl ==
    /\ pc = "mtl_loop"
    /\ MoreLines
    /\ mtl.numMaterials < MaxMaterials
    /\ \E s \in Feed(NewmtlForms) :
       \E t \in {_qobj_next_token(s)} :
       \E g \in {_qobj_fgets(t.rest)} :
       \E fail \in FailPoints(2) :
       \E r \in {Realloc(Mem(fail), mtl.materials)} :
       \E a \in {Malloc(r.m, <<"mtl.name", mtl.numMaterials, 0>>)} :
       /\ t.ok /\ t.endCh.k # "eof" /\ MtlCommand(t.token) = "newmtl"
       /\ g.ok /\ Accept(g.rest)
       /\ inp' = g.rest
       /\ oomLeft' = oomLeft - Cardinality(fail)
       /\ IF r.p = NULL
          THEN /\ live' = r.m.live /\ badFree' = r.m.bad
               /\ mtl' = [mtl EXCEPT !.curMaterial = mtl.numMaterials]
               /\ errorCode' = QOBJ_ERROR_OUT_OF_MEM
               /\ pc' = "mtl_cleanup"
               /\ gh' = [gh EXCEPT !.mlines = @ + 1, !.fresh = FALSE]
          ELSE /\ live' = a.m.live /\ badFree' = a.m.bad
               /\ mtl' = [numMaterials |-> mtl.numMaterials + 1,
                          materials |-> r.p,
                          curMaterial |-> mtl.numMaterials,
                          arr |-> [GrowMaterials(mtl.arr, mtl.numMaterials + 1)
                                     EXCEPT ![mtl.numMaterials + 1] =
                                        [_qobj_default_material EXCEPT
                                           !.name = a.p,
                                           !.nameStr = IF a.p = NULL THEN <<>>
                                                       ELSE g.token]]]
               /\ errorCode' = errorCode
               /\ pc' \in IF a.p = NULL THEN {"mtl_loop", "mtl_aborted"}
                          ELSE {"mtl_loop"}
               /\ gh' = [gh EXCEPT !.mlines = @ + 1, !.fresh = TRUE,
                                   !.touched = Append(@, FALSE),
                                   !.nullWrite = @ \/ a.p = NULL]
    /\ UNCHANGED <<src, path, objvars>>

\* Ka, Kd, Ks: fscanf(fptr, "%f %f %f\n", ...), then the color is stored in
\* the slot curMaterial; a component fscanf did not convert is indeterminate
MtlCmdColor ==
    /\ pc = "mtl_loop"
    /\ MoreLines
    /\ \E s \in Feed(ColorForms) :
       \E t \in {_qobj_next_token(s)} :
       \E r \in {Fscanf(t.rest, <<"f", "ws", "f", "ws", "f", "ws">>, <<>>)} :
       \E col \in {[j \in 1..3 |-> IF j <= r.n THEN r.vals[j] ELSE Uninit]} :
       /\ t.ok /\ t.endCh.k # "eof"
       /\ MtlCommand(t.token) \in {"ambientColor", "diffuseColor", "specularColor"}
       /\ r.ok /\ Accept(r.rest)
       /\ inp' = r.rest
       /\ mtl' = [mtl EXCEPT !.arr[mtl.curMaterial + 1][MtlCommand(t.token)] =
                                 Color(col[1], col[2], col[3])]
    /\ gh' = [gh EXCEPT !.mlines = @ + 1, !.fresh = FALSE,
                        !.early = @ \/ mtl.numMaterials = 0,
                        !.touched = IF mtl.numMaterials = 0 THEN @
                                    ELSE [@ EXCEPT ![mtl.curMaterial + 1] = TRUE]]
    /\ UNCHANGED <<src, path, pc, errorCode, live, badFree, oomLeft, objvars>>

\* d, Ns, Ni: fscanf(fptr, "%f\n", ...), then the value is stored
MtlCmdScalar ==
    /\ pc = "mtl_loop"
    /\ MoreLines
    /\ \E s \in Feed(ScalarForms) :
       \E t \in {_qobj_next_token(s)} :
       \E r \in {Fscanf(t.rest, <<"f", "ws">>, <<>>)} :
       /\ t.ok /\ t.endCh.k # "eof"
       /\ MtlCommand(t.token) \in {"opacity", "specularExp", "refractionIndex"}
       /\ r.ok /\ Accept(r.rest)
       /\ inp' = r.rest
       /\ mtl' = [mtl EXCEPT !.arr[mtl.curMaterial + 1][MtlCommand(t.token)] =
                                 IF r.n >= 1 THEN r.vals[1] ELSE Uninit]
    /\ gh' = [gh EXCEPT !.mlines = @ + 1, !.fresh = FALSE,
                        !.early = @ \/ mtl.numMaterials = 0,
                        !.touched = IF mtl.numMaterials = 0 THEN @
                                    ELSE [@ EXCEPT ![mtl.curMaterial + 1] = TRUE]]
    /\ UNCHANGED <<src, path, pc, errorCode, live, badFree, oomLeft, objvars>>

\* map_Ka, map_Kd, map_Ks, map_Bump: a block is allocated, the rest of the
\* line is read into it without a check, and the block is stored in the slot
\* curMaterial over the pointer the field held
MtlCmdMap ==
    /\ pc = "mtl_loop"
    /\ MoreLines
    /\ \E s \in Feed(MapForms) :
       \E t \in {_qobj_next_token(s)} :
       \E fail \in FailPoints(1) :
       \E a \in {Malloc(Mem(fail), <<"mtl.map", gh.mlines, 0>>)} :
       \E g \in {_qobj_fgets(t.rest)} :
       /\ t.ok /\ t.endCh.k # "eof" /\ MtlCommand(t.token) \in MapFields
       /\ g.ok /\ Accept(g.rest)
       /\ inp' = g.rest
       /\ live' = a.m.live /\ badFree' = a.m.bad
       /\ oomLeft' = oomLeft - Cardinality(fail)
       /\ mtl' = [mtl EXCEPT !.arr[mtl.curMaterial + 1][MtlCommand(t.token)] = a.p]
       /\ pc' \in IF a.p = NULL THEN {"mtl_loop", "mtl_aborted"} ELSE {"mtl_loop"}
       /\ gh' = [gh EXCEPT !.mlines = @ + 1, !.fresh = FALSE,
                           !.early = @ \/ mtl.numMaterials = 0,
                           !.touched = IF mtl.numMaterials = 0 THEN @
                                       ELSE [@ EXCEPT ![mtl.curMaterial + 1] = TRUE],
                           !.nullWrite = @ \/ a.p = NULL]
    /\ UNCHANGED <<src, path, errorCode, objvars>>

\* "cleanup" of qobj_load_mtl, up to its return
MtlCleanup ==
    /\ pc = "mtl_cleanup"
    /\ \E m1 \in {IF errorCode # QOBJ_SUCCESS
                  THEN qobj_free_mtl(Mem({}), mtl.numMaterials, mtl)
                  ELSE Mem({})} :
       /\ live' = m1.live /\ badFree' = m1.bad
    /\ mtl' = [mtl EXCEPT !.numMaterials = IF errorCode # QOBJ_SUCCESS THEN 0 ELSE @]
    /\ pc' = "mtl_done"
    /\ gh' = [gh EXCEPT !.fresh = FALSE]
    /\ UNCHANGED <<src, path, inp, errorCode, oomLeft, objvars>>

\* the caller releases the result: qobj_free_mtl(numMaterials, materials)
FreeMtl ==
    /\ pc = "mtl_done"
    /\ \E m1 \in {qobj_free_mtl(Mem({}), mtl.numMaterials, mtl)} :
       /\ live' = m1.live /\ badFree' = m1.bad
    /\ pc' = "mtl_freed"
    /\ UNCHANGED <<src, path, inp, errorCode, oomLeft, mtl, gh, objvars>>

Next ==
    \/ Open
    \/ LoadAlloc
    \/ LoopEOF
    \/ CmdEmpty
    \/ CmdSkip
    \/ CmdV
    \/ CmdVn
    \/ CmdVt
    \/ CmdUsemtl
    \/ CmdUnknown
    \/ FaceFirst
    \/ FaceReadV1
    \/ FaceReadV2
    \/ FaceTriangle
    \/ Cleanup
    \/ FreeObj
    \/ MtlOpen
    \/ MtlAlloc
    \/ MtlLoopEOF
    \/ MtlCmdEmpty
    \/ MtlCmdSkip
    \/ MtlCmdUnknown
    \/ MtlCmdNewmtl
    \/ MtlCmdColor
    \/ MtlCmdScalar
    \/ MtlCmdMap
    \/ MtlCleanup
    \/ FreeMtl

Spec == Init /\ [][Next]_vars

TypeOK ==
    /\ pc \in {"open", "alloc", "loop", "f_v1", "f_v2", "tri", "cleanup", "done",
               "freed", "aborted", "hung", "mtl_open", "mtl_alloc", "mtl_loop",
               "mtl_cleanup", "mtl_done", "mtl_freed", "mtl_aborted"}
    /\ mtl.numMaterials <= MaxMaterials /\ gh.mlines <= MaxLines
    /\ Lazy => Len(inp) <= 1 /\ gh.odd <= Limits.odd
    /\ oomLeft \in 0..MaxAllocFailures

-----------------------------------------------------------------------------
(* Properties *)

\* qobj_load_obj has returned
Returned == pc \in {"done", "freed"}

\* no allocation was made to fail
NoAllocFailure == oomLeft = MaxAllocFailures

Distinct(seq) == {seq[i] : i \in 1..Len(seq)}

\* the flattened triangles (r0, r(i), r(i+1)) of the references refs
Fan(refs) ==
    [k \in 1..(3 * (Len(refs) - 2)) |->
        LET i == ((k - 1) \div 3) + 1
            c == (k - 1) % 3
        IN IF c = 0 THEN refs[1] ELSE refs[i + c]]

\* the index of the vertex of a reference: the rank of its first lookup
IndexOf(order, key) == (CHOOSE j \in 1..Len(order) : order[j] = key) - 1

\* C1: within one mesh, after faces whose references all denote entries of
\* the pools, two index entries are equal exactly when their references
\* resolve to the same (position, texCoord, normal) triple, and numVertices
\* is the number of distinct resolved triples routed to the mesh.
C1_DedupIdentity ==
    errorCode = QOBJ_SUCCESS /\ ~gh.badRef =>
    \A m \in 1..Len(gh.specKeys) :
       LET sk == gh.specKeys[m]
           id == meshes.arr[m].idata
       IN /\ \A i, j \in 1..Len(sk) : (sk[i] = sk[j]) <=> (id[i] = id[j])
          /\ meshes.arr[m].numVertices = Cardinality(Distinct(sk))

\* C2: while the load has not failed, and in every mesh it returns, numIndices
\* is a multiple of 3, the index buffer holds numIndices entries and each of
\* them is below numVertices.
C2_IndexBuffer ==
    errorCode = QOBJ_SUCCESS /\ pc # "freed" =>
    \A m \in 1..numMeshes :
       LET mesh == meshes.arr[m] IN
       /\ mesh.numIndices % 3 = 0
       /\ Len(mesh.idata) = mesh.numIndices
       /\ \A i \in 1..mesh.numIndices : mesh.idata[i] \in 0..(mesh.numVertices - 1)

C2_Witness ==
    /\ pc = "done" /\ errorCode = QOBJ_SUCCESS /\ numMeshes = 1
    /\ meshes.arr[1].numIndices = 6
    /\ meshes.arr[1].numVertices = 2

\* C3: a completed face of n references r0..r(n-1) has appended n-2
\* triangles to its mesh, the i-th being (r0, r(i), r(i+1)); a face of valid
\* references in the format of its mesh is not rejected; the cube file
\* (8 positions, 6 position-only quads) gives one position-only mesh of 36
\* indices and 8 vertices.
C3_FanTriangulation ==
    /\ gh.face.done =>
         LET m == gh.face.mesh + 1
             n == Len(gh.face.refs)
             fan == Fan(gh.face.refs)
             mesh == meshes.arr[m]
         IN /\ n >= 3
            /\ mesh.numIndices = gh.face.start + 3 * (n - 2)
            /\ \A k \in 1..(3 * (n - 2)) :
                 /\ gh.keys[m][gh.face.start + k] = fan[k]
                 /\ mesh.idata[gh.face.start + k] = IndexOf(gh.order[m], fan[k])
    /\ (~gh.face.done /\ Len(gh.face.refs) >= 3 /\ pc = "cleanup"
        /\ errorCode = QOBJ_ERROR_INVALID_FILE)
         => (~gh.face.valid \/ spec # Mesh.vertexAttribs)
    /\ (src = "cube" /\ pc = "done" /\ errorCode = QOBJ_SUCCESS)
         => /\ numMeshes = 1
            /\ meshes.arr[1].vertexAttribs = QOBJ_VERTEX_SPEC_POSITION
            /\ meshes.arr[1].numIndices = 36
            /\ meshes.arr[1].numVertices = 8

C3_Witness ==
    /\ src = "cube" /\ pc = "done" /\ errorCode = QOBJ_SUCCESS
    /\ gh.face.done /\ Len(gh.face.refs) = 4
    /\ meshes.arr[1].numIndices = 36

\* C4: every component of a reference that denotes an entry of its pool is
\* resolved before the dedup lookup (a negative v with n entries in the pool
\* is looked up as n + v + 1), so two references of a mesh that denote the
\* same pool entries get the same index.
C4_NegativeResolved ==
    errorCode = QOBJ_SUCCESS /\ ~gh.badRef =>
    \A m \in 1..Len(gh.keys) :
       /\ \A i \in 1..Len(gh.keys[m]) : gh.keys[m][i] = gh.specKeys[m][i]
       /\ \A i, j \in 1..Len(gh.specKeys[m]) :
            gh.specKeys[m][i] = gh.specKeys[m][j]
               => meshes.arr[m].idata[i] = meshes.arr[m].idata[j]

\* C5: when a reference with a component that is 0 or, resolved, outside its
\* pool was read, the load returns QOBJ_ERROR_INVALID_FILE with numMeshes 0.
C5_BadReferenceRejected ==
    Returned /\ gh.badRef /\ NoAllocFailure
       => errorCode = QOBJ_ERROR_INVALID_FILE /\ numMeshes = 0

\* C6: while the load has not failed, the material names of the meshes are
\* pairwise distinct, a face is added to the mesh named like the active
\* material, and the mesh of a name holds all the indices of the faces read
\* while that name was active.
C6_MaterialRouting ==
    errorCode = QOBJ_SUCCESS /\ pc # "freed" =>
    /\ \A a, b \in 1..numMeshes :
         a # b => meshes.arr[a].mname # meshes.arr[b].mname
    /\ pc \in {"f_v1", "f_v2", "tri"} => Mesh.mname = curMaterial
    /\ \A m \in 1..numMeshes :
         meshes.arr[m].numIndices = gh.byName[meshes.arr[m].mname]
    /\ \A x \in Names :
         gh.byName[x] > 0 => \E m \in 1..numMeshes : meshes.arr[m].mname = x

\* usemtl A, a face, usemtl B, a face, usemtl A, a face: the last face went
\* to the first mesh, behind its first face
C6_Witness ==
    /\ pc = "done" /\ errorCode = QOBJ_SUCCESS /\ numMeshes = 2
    /\ meshes.arr[1].mname = <<W("A")>> /\ meshes.arr[2].mname = <<W("B")>>
    /\ curMaterial = <<W("A")>>
    /\ gh.face.done /\ gh.face.mesh = 0 /\ gh.face.start = 3
    /\ meshes.arr[1].numIndices = 6 /\ meshes.arr[2].numIndices = 3

\* C7: a return with a code other than QOBJ_SUCCESS leaves numMeshes = 0.
C7_NoPartialResult ==
    Returned /\ errorCode # QOBJ_SUCCESS => numMeshes = 0

\* a failure after two meshes were built
C7_Witness ==
    /\ pc = "done" /\ errorCode # QOBJ_SUCCESS
    /\ Len(gh.keys) = 2 /\ Len(gh.keys[1]) >= 3 /\ Len(gh.keys[2]) >= 3

\* C8: when the load returns a format or unsupported-command error, no block
\* it allocated is live.
C8_ErrorFreesAll ==
    (pc = "done" /\ errorCode \in {QOBJ_ERROR_INVALID_FILE,
                                   QOBJ_ERROR_UNSUPPORTED_DATA_TYPE})
       => live = {}

\* C9: when exactly one allocation of the load failed, it returns
\* QOBJ_ERROR_OUT_OF_MEM with numMeshes 0 and no block of the load is live.
C9_AllocFailure ==
    (pc = "done" /\ oomLeft = MaxAllocFailures - 1)
       => /\ errorCode = QOBJ_ERROR_OUT_OF_MEM
          /\ numMeshes = 0
          /\ live = {}

\* C10: when a line whose first token is no known command was read, the load
\* returns QOBJ_ERROR_UNSUPPORTED_DATA_TYPE.
C10_UnknownCommand ==
    Returned /\ gh.unknown /\ NoAllocFailure
       => errorCode = QOBJ_ERROR_UNSUPPORTED_DATA_TYPE

\* qobj_load_mtl has returned
MtlReturned == pc \in {"mtl_done", "mtl_freed"}

\* C11: a material file in which a command token other than newmtl, Ka, Kd,
\* Ks, d, Ns, Ni, map_Ka, map_Kd, map_Ks, map_Bump, illum, Tf and comments
\* was dispatched makes qobj_load_mtl return the unsupported-command error
\* with zero materials.
C11_MtlUnknownCommand ==
    MtlReturned /\ gh.unknown /\ NoAllocFailure =>
    errorCode = QOBJ_ERROR_UNSUPPORTED_DATA_TYPE /\ mtl.numMaterials = 0

\* the fields of a material other than its name hold the default values
HasDefaultValues(material) ==
    /\ material.opacity = 1 /\ material.specularExp = 1
    /\ material.refractionIndex = 1
    /\ material.ambientColor = Color(0, 0, 0)
    /\ material.diffuseColor = Color(0, 0, 0)
    /\ material.specularColor = Color(0, 0, 0)
    /\ \A f \in MapFields : material[f] = NULL

\* C12: right after a newmtl command the new material (the last of the
\* array) has opacity, specular exponent and refraction index 1, its three
\* colors zero and its four map paths unset, whatever commands came before;
\* and on success every material that no later command wrote to is returned
\* with these values.
C12_NewmtlDefaults ==
    /\ gh.fresh => HasDefaultValues(mtl.arr[mtl.numMaterials])
    /\ pc = "mtl_done" /\ errorCode = QOBJ_SUCCESS =>
         \A i \in 1..mtl.numMaterials :
            ~gh.touched[i] => HasDefaultValues(mtl.arr[i])

\* a property command came before the first newmtl, and the material is
\* returned without a command of its own
C12_Witness ==
    /\ pc = "mtl_done" /\ errorCode = QOBJ_SUCCESS
    /\ gh.early /\ mtl.numMaterials >= 1 /\ ~gh.touched[1]

\* C13: the layout of a mesh is the format of the first face routed to it: a
\* face of another reference format is never added to the mesh, in either
\* direction (more attributes or fewer), and the load that met it fails
\* with QOBJ_ERROR_INVALID_FILE.
C13_MixedFormatsRejected ==
    /\ pc = "loop" /\ gh.face.done =>
          spec = meshes.arr[gh.face.mesh + 1].vertexAttribs
    /\ pc = "cleanup" /\ gh.face.refs # <<>> /\ ~gh.face.done
       /\ spec # 0 /\ spec # meshes.arr[gh.face.mesh + 1].vertexAttribs
       /\ NoAllocFailure
       => errorCode = QOBJ_ERROR_INVALID_FILE

\* the test of the extension: the last Len(ext) characters of the path are ext
EndsWith(p, ext) ==
    Len(p) >= Len(ext) /\ SubSeq(p, Len(p) - Len(ext) + 1, Len(p)) = ext

\* C14: qobj_load_obj with a path that does not end in ".obj", and
\* qobj_load_mtl with a path that does not end in ".mtl", return
\* QOBJ_ERROR_INVALID_FILE and have read nothing of the file.
C14_ExtensionChecked ==
    /\ pc \in {"done", "freed"} /\ ~EndsWith(path, <<".", "o", "b", "j">>) =>
          errorCode = QOBJ_ERROR_INVALID_FILE /\ (~Lazy => inp = Script(src))
    /\ MtlReturned /\ ~EndsWith(path, <<".", "m", "t", "l">>) =>
          errorCode = QOBJ_ERROR_INVALID_FILE /\ gh.mlines = 0

\* C15: whenever qobj_load_obj returns QOBJ_SUCCESS, it returns at least one
\* mesh and every returned mesh holds at least one triangle.
C15_SuccessNonEmpty ==
    pc \in {"done", "freed"} /\ errorCode = QOBJ_SUCCESS =>
       /\ numMeshes >= 1
       /\ \A i \in 1..numMeshes : meshes.arr[i].numIndices >= 3

\* C16: after a successful qobj_load_obj the live blocks are the mesh array
\* and the vertex buffer, index buffer and material name of every mesh, and
\* nothing else; after the qobj_free_obj(numMeshes, meshes) that follows no
\* block of the load is live, also when the load produced zero meshes.
C16_SuccessOwnership ==
    /\ pc = "done" /\ errorCode = QOBJ_SUCCESS =>
          /\ live = {meshes.ptr}
                    \cup UNION {{meshes.arr[i].vertices, meshes.arr[i].indices,
                                 meshes.arr[i].material} : i \in 1..numMeshes}
          /\ badFree = {}
    /\ pc = "freed" /\ errorCode = QOBJ_SUCCESS => live = {} /\ badFree = {}

\* C17: after a qobj_load_mtl that succeeded, the qobj_free_mtl(numMaterials,
\* materials) that follows leaves no block of the load live (the array, the
\* names, the map paths), whatever the commands of the file were.
C17_FreeMtlFreesAll ==
    pc = "mtl_freed" /\ errorCode = QOBJ_SUCCESS /\ NoAllocFailure =>
       live = {} /\ badFree = {}

\* C18: skipping a comment or an ignored command consumes the rest of the
\* line its token is on and nothing more: no command of the following line
\* is ever lost to a skip.
C18_SkipConsumesLine == gh.swallowed = <<>>

\* C19: a non-empty command token that the end of the stream terminates is
\* dispatched before the loop ends: when the last token of the file is an
\* unrecognized command the load returns the unsupported-command error, and
\* when it is a bare f it returns the format error.
C19_LastTokenDispatched ==
    Returned /\ NoAllocFailure =>
       /\ gh.atEOF = "unsupported" => errorCode = QOBJ_ERROR_UNSUPPORTED_DATA_TYPE
       /\ gh.atEOF = "f" => errorCode = QOBJ_ERROR_INVALID_FILE

\* C20: in qobj_load_mtl, when one allocation failed (the array, its growth
\* on newmtl, a name, a map path) the call returns QOBJ_ERROR_OUT_OF_MEM with
\* numMaterials = 0, and a block that was not allocated is never written.
C20_MtlAllocFailure ==
    /\ MtlReturned /\ oomLeft = MaxAllocFailures - 1 =>
          errorCode = QOBJ_ERROR_OUT_OF_MEM /\ mtl.numMaterials = 0
    /\ ~gh.nullWrite

\* the load is reading the file (or has just left the loop) and no
\* allocation of it has failed
Loading == pc \in {"loop", "f_v1", "f_v2", "tri", "cleanup"}
           /\ errorCode # QOBJ_ERROR_OUT_OF_MEM

\* the load factor of a map is below 0.5, its size is the number of its
\* occupied slots, its capacity is 32 doubled some number of times, and it
\* was not doubled before its size had reached half of the capacity
MapInvariant(map) ==
    /\ 2 * map.size < map.cap
    /\ map.size = Cardinality({j \in 1..map.cap : map.keysArr[j].pos # 0})
    /\ \E k \in 0..HashBits : map.cap = HashmapInitialCap * (2 ^ k)
    /\ map.cap = HashmapInitialCap \/ 4 * map.size >= map.cap

\* the maps left by the successful calls of _qobj_add_vertex for the
\* references vs, made one after the other from the map map of mesh mesh
RECURSIVE MapsAfter(_, _, _)
MapsAfter(mesh, map, vs) ==
    IF vs = <<>> THEN {}
    ELSE UNION {IF a.err # QOBJ_SUCCESS THEN {}
                ELSE {a.map} \cup MapsAfter(a.mesh, a.map, Tail(vs)) :
                a \in {_qobj_add_vertex(Mem({}), mesh, map, Head(vs),
                                        positions, texCoords, normals)}}

\* C21: after every successful _qobj_hashmap_get_or_add on a map made by
\* _qobj_hashmap_create, size < cap / 2, size is the number of occupied
\* slots and cap is 32 times a power of two; the table doubles exactly when
\* an insertion brings size to cap / 2.  Checked on the map of every mesh
\* between two triangles and on the maps after each of the three lookups of
\* the triangle about to be added.
C21_MapLoadFactor ==
    Loading =>
       /\ \A i \in 1..numMeshes : MapInvariant(meshVertexMaps.arr[i])
       /\ pc = "tri" =>
             \A map \in MapsAfter(Mesh, meshVertexMaps.arr[curMesh + 1],
                                   <<firstVertex, v1, v2>>) : MapInvariant(map)

\* a map that has been doubled
C21_Witness ==
    /\ Loading /\ pc = "loop"
    /\ \E i \in 1..numMeshes :
          /\ meshVertexMaps.arr[i].cap = 2 * HashmapInitialCap
          /\ 2 * meshVertexMaps.arr[i].size >= HashmapInitialCap

\* the value a lookup of key finds in map, -1 when the key is not in it
Lookup(map, key) ==
    LET pr == Probe(map.keysArr, map.cap, _qobj_hashmap_hash(key) % map.cap, key,
                    map.cap + 1)
    IN IF pr.found THEN map.valsArr[pr.hash + 1] ELSE -1

\* C22: the map of a mesh is the abstract map from the distinct keys handed
\* to it to the candidate values of their first lookup (the j-th distinct
\* key has the value j - 1): every key is found with its value and the map
\* holds no other entry, also after the table was doubled and for keys that
\* do not sit at their own hash.
C22_MapRefinement ==
    pc \in {"loop", "f_v1", "f_v2", "tri", "cleanup"} /\ errorCode = QOBJ_SUCCESS =>
       \A i \in 1..numMeshes :
          /\ meshVertexMaps.arr[i].size = Len(gh.order[i])
          /\ \A j \in 1..Len(gh.order[i]) :
                Lookup(meshVertexMaps.arr[i], gh.order[i][j]) = j - 1

\* a doubled table in which a key was moved away from its hash by a
\* collision
C22_Witness ==
    /\ pc = "loop" /\ errorCode = QOBJ_SUCCESS
    /\ \E i \in 1..numMeshes :
          /\ meshVertexMaps.arr[i].cap = 2 * HashmapInitialCap
          /\ Len(gh.order[i]) > HashmapInitialCap \div 2
          /\ \E s \in 1..meshVertexMaps.arr[i].cap :
                /\ meshVertexMaps.arr[i].keysArr[s].pos # 0
                /\ _qobj_hashmap_hash(meshVertexMaps.arr[i].keysArr[s])
                      % meshVertexMaps.arr[i].cap # s - 1

\* the floats of a vertex that attribute bit of size floats takes in mesh
\* when its offset is off
AttribRange(mesh, bit, off, size) ==
    IF HasAttrib(mesh.vertexAttribs, bit) THEN off..(off + size - 1) ELSE {}

\* the stride of mesh is the sum of the sizes of its attributes (position
\* 3, normal 3, texCoord 2), the ranges of its attributes are disjoint and
\* inside 0 .. stride - 1, and an absent attribute has the offset UINT32_MAX
LayoutMatches(mesh) ==
    LET hasP == HasAttrib(mesh.vertexAttribs, QOBJ_VERTEX_ATTRIB_POSITION)
        hasN == HasAttrib(mesh.vertexAttribs, QOBJ_VERTEX_ATTRIB_NORMAL)
        hasT == HasAttrib(mesh.vertexAttribs, QOBJ_VERTEX_ATTRIB_TEX_COORDS)
        rP == AttribRange(mesh, QOBJ_VERTEX_ATTRIB_POSITION, mesh.vertexPosOffset, 3)
        rN == AttribRange(mesh, QOBJ_VERTEX_ATTRIB_NORMAL, mesh.vertexNormalOffset, 3)
        rT == AttribRange(mesh, QOBJ_VERTEX_ATTRIB_TEX_COORDS,
                          mesh.vertexTexCoordOffset, 2)
    IN /\ mesh.vertexStride = (IF hasP THEN 3 ELSE 0) + (IF hasN THEN 3 ELSE 0)
                              + (IF hasT THEN 2 ELSE 0)
       /\ mesh.vertexStride \in {3, 5, 6, 8}
       /\ rP \cup rN \cup rT = 0..(mesh.vertexStride - 1)
       /\ rP \cap rN = {} /\ rP \cap rT = {} /\ rN \cap rT = {}
       /\ ~hasP => mesh.vertexPosOffset = UINT32_MAX
       /\ ~hasN => mesh.vertexNormalOffset = UINT32_MAX
       /\ ~hasT => mesh.vertexTexCoordOffset = UINT32_MAX

\* the fields of a mesh that its creation fixes
Layout(mesh) ==
    <<mesh.vertexAttribs, mesh.vertexStride, mesh.vertexPosOffset,
      mesh.vertexNormalOffset, mesh.vertexTexCoordOffset, mesh.mname>>

\* C23: every mesh has the stride and the offsets of its attribute layout
\* (stride 3, 5, 6 or 8, disjoint attribute ranges inside the stride,
\* UINT32_MAX for an absent attribute), and no step changes these fields
\* or the material name of a mesh that exists.
C23_MeshLayout ==
    /\ [](\A i \in 1..numMeshes : LayoutMatches(meshes.arr[i]))
    /\ [][\A i \in 1..numMeshes :
            Layout(meshes.arr[i])' = Layout(meshes.arr[i])]_vars

\* a mesh of the layout with every attribute took a triangle, after a mesh
\* creation and several steps that wrote to the mesh
C23_Witness ==
    /\ pc = "done" /\ errorCode = QOBJ_SUCCESS
    /\ \E i \in 1..numMeshes :
          /\ meshes.arr[i].vertexAttribs = QOBJ_VERTEX_SPEC_POSITION_TEX_COORD_NORMAL
          /\ meshes.arr[i].vertexStride = 8
          /\ meshes.arr[i].numIndices >= 3

\* the floats of attribute bit (size floats per entry, at offset off of a
\* vertex) of vertex j of mesh are those of entry idx (from 1) of pool
AttribMatches(mesh, j, bit, off, size, pool, idx) ==
    HasAttrib(mesh.vertexAttribs, bit) =>
       \A c \in 0..(size - 1) :
          Load(mesh.vdata, (j - 1) * mesh.vertexStride + off + c)
             = Load(pool.data, (idx - 1) * size + c)

\* C24: the vertex buffer of a mesh holds numVertices x stride floats;
\* vertex j holds, at the offsets of the mesh, the pool values at the
\* indices of the j-th distinct reference handed to the map of the mesh
\* (position p - 1, normal n - 1, texCoord t - 1 of the 1-based reference);
\* and no step changes a float that a mesh already holds.
C24_VertexData ==
    /\ [](pc \in {"loop", "f_v1", "f_v2", "tri", "cleanup", "done"}
            /\ errorCode = QOBJ_SUCCESS =>
          \A i \in 1..numMeshes :
             /\ meshes.arr[i].numVertices = Len(gh.order[i])
             /\ Len(meshes.arr[i].vdata)
                   = meshes.arr[i].numVertices * meshes.arr[i].vertexStride
             /\ \A j \in 1..Len(gh.order[i]) :
                   /\ AttribMatches(meshes.arr[i], j, QOBJ_VERTEX_ATTRIB_POSITION,
                                    meshes.arr[i].vertexPosOffset, 3, positions,
                                    gh.order[i][j].pos)
                   /\ AttribMatches(meshes.arr[i], j, QOBJ_VERTEX_ATTRIB_NORMAL,
                                    meshes.arr[i].vertexNormalOffset, 3, normals,
                                    gh.order[i][j].normal)
                   /\ AttribMatches(meshes.arr[i], j, QOBJ_VERTEX_ATTRIB_TEX_COORDS,
                                    meshes.arr[i].vertexTexCoordOffset, 2, texCoords,
                                    gh.order[i][j].texCoord))
    /\ [][\A i \in 1..numMeshes :
            /\ IsPrefix(meshes.arr[i].vdata, meshes.arr[i].vdata')
            /\ IsPrefix(positions.data, positions.data')
            /\ IsPrefix(normals.data, normals.data')
            /\ IsPrefix(texCoords.data, texCoords.data')]_vars

\* the vertex buffer of a mesh has grown while it held vertices
C24_Witness ==
    /\ pc = "done" /\ errorCode = QOBJ_SUCCESS
    /\ \E i \in 1..numMeshes :
          /\ meshes.arr[i].vertexCap > InitialCap
          /\ meshes.arr[i].numVertices > InitialCap - 3

\* the element counts _qobj_maybe_resize_array is tried with for a buffer
\* of capacity cap
ResizeCounts(cap) ==
    {0, cap - 1, cap, cap + 1, 2 * cap - 1, 2 * cap, 2 * cap + 1, 4 * cap - 1,
     4 * cap, 8 * cap + 2}

\* _qobj_maybe_resize_array(&buffer, elemSize, n, &cap) behaves as claimed
\* on the heap of the state, with its reallocation failing or not
ResizeAsClaimed(buffer, n, cap) ==
    \A fail \in {{}, {1}} :
       \A r \in {_qobj_maybe_resize_array(Mem(fail), buffer, n, cap)} :
          IF n < cap
          THEN /\ r.err = QOBJ_SUCCESS /\ r.buffer = buffer /\ r.elemCap = cap
               /\ r.m.live = live
          ELSE IF fail = {}
          THEN /\ r.err = QOBJ_SUCCESS
               /\ r.elemCap > n /\ r.elemCap \div 2 <= n
               /\ \E k \in 1..HashBits : r.elemCap = cap * (2 ^ k)
               /\ r.buffer # NULL
               /\ r.m.live = (live \ {buffer}) \cup {r.buffer}
          ELSE /\ r.err = QOBJ_ERROR_OUT_OF_MEM
               /\ r.buffer = buffer /\ r.elemCap = cap
               /\ r.m.live = live

\* C25: _qobj_maybe_resize_array leaves the buffer and the capacity as they
\* are when n < cap; otherwise, when the reallocation succeeds, the new
\* capacity is the old one doubled the smallest number of times that makes
\* it exceed n and the old block is replaced by the new one; when the
\* reallocation fails it returns QOBJ_ERROR_OUT_OF_MEM and leaves the buffer
\* and the capacity as they are.  Checked on the position pool and on the
\* buffers of every mesh in every state of the main loop.
C25_MaybeResizeArray ==
    pc = "loop" =>
       /\ \A n \in ResizeCounts(positions.cap) :
             ResizeAsClaimed(positions.ptr, n, positions.cap)
       /\ \A i \in 1..numMeshes :
             /\ \A n \in ResizeCounts(meshes.arr[i].indexCap) :
                   ResizeAsClaimed(meshes.arr[i].indices, n, meshes.arr[i].indexCap)
             /\ \A n \in ResizeCounts(meshes.arr[i].vertexCap) :
                   ResizeAsClaimed(meshes.arr[i].vertices, n, meshes.arr[i].vertexCap)

\* the position pool and the index buffer of a mesh were grown by the load
\* and are tried again
C25_Witness ==
    /\ pc = "loop" /\ errorCode = QOBJ_SUCCESS
    /\ positions.cap > InitialCap
    /\ \E i \in 1..numMeshes : meshes.arr[i].indexCap > InitialCap

\* C26: when a reference of a face is not of the format of the first
\* reference of the face, wherever it stands, qobj_load_obj returns
\* QOBJ_ERROR_INVALID_FILE and zero meshes.
C26_MixedFaceRejected ==
    Returned /\ gh.mixed /\ NoAllocFailure =>
       errorCode = QOBJ_ERROR_INVALID_FILE /\ numMeshes = 0

ProbeStops(map) ==
    /\ \E j \in 1..map.cap : map.keysArr[j].pos = 0
    /\ \A j \in 1..map.cap : map.keysArr[j].pos >= 0

\* C28: every call of _qobj_hashmap_get_or_add of a load terminates.  The
\* probe loop never goes round the whole table, and when it starts (for each
\* of the three lookups of the triangle about to be added) the table has an
\* empty slot and every key stored has a positive position.
C28_ProbeTerminates ==
    /\ pc # "hung"
    /\ errorCode # "HANG"
    /\ pc = "tri" =>
          \A map \in {meshVertexMaps.arr[curMesh + 1]}
                      \cup MapsAfter(Mesh, meshVertexMaps.arr[curMesh + 1],
                                     <<firstVertex, v1>>) : ProbeStops(map)

\* a lookup is about to start at a slot that holds another key: the probe
\* has to step on
C28_Witness ==
    /\ pc = "tri" /\ firstVertex.pos >= 1
    /\ Mesh.vertexAttribs = QOBJ_VERTEX_ATTRIB_POSITION
    /\ \E map \in {meshVertexMaps.arr[curMesh + 1]} :
       \E h \in {_qobj_hashmap_hash(firstVertex) % map.cap} :
          /\ map.keysArr[h + 1].pos # 0
          /\ map.keysArr[h + 1] # firstVertex

\* the next entry of a pool, written at the index size, is below the
\* capacity, and nothing was written at or above the size
PoolInBounds(pool, elemSize) ==
    /\ pool.size < pool.cap
    /\ Len(pool.data) <= pool.size * elemSize

\* nothing was written into the buffers of a mesh at or above their counts,
\* and the counts are within the capacities
MeshInBounds(mesh) ==
    /\ mesh.numIndices <= mesh.indexCap
    /\ Len(mesh.idata) <= mesh.numIndices
    /\ mesh.numVertices <= mesh.vertexCap
    /\ Len(mesh.vdata) <= mesh.numVertices * mesh.vertexStride

\* the components of a reference that the layout of mesh reads from the
\* pools are entries the pools hold
ReadsInPools(mesh, v) ==
    /\ v.pos >= 1 /\ v.pos <= positions.size
    /\ HasAttrib(mesh.vertexAttribs, QOBJ_VERTEX_ATTRIB_NORMAL)
          => v.normal >= 1 /\ v.normal <= normals.size
    /\ HasAttrib(mesh.vertexAttribs, QOBJ_VERTEX_ATTRIB_TEX_COORDS)
          => v.texCoord >= 1 /\ v.texCoord <= texCoords.size

Written(data) == \A j \in 1..Len(data) : data[j] # Uninit

\* C29: while a file is loaded, every write into a pool, into the vertex
\* buffer or into the index buffer of a mesh is below the capacity of the
\* buffer, and every pool entry read for a vertex is below the size of the
\* pool.  Between two commands each pool has room for the entry the next v,
\* vn or vt writes; the triangle about to be added leaves the buffers of
\* its mesh within their (resized) capacities, every reference that reaches
\* the buffers is within the pools, and the floats it copied are floats the
\* pools hold.
C29_AccessesInBounds ==
    pc \in {"loop", "f_v1", "f_v2", "tri"} =>
       /\ PoolInBounds(positions, QOBJ_ATTRIB_SIZE_POSITION)
       /\ PoolInBounds(normals, QOBJ_ATTRIB_SIZE_NORMAL)
       /\ PoolInBounds(texCoords, QOBJ_ATTRIB_SIZE_TEX_COORDS)
       /\ \A i \in 1..numMeshes : MeshInBounds(meshes.arr[i])
       /\ pc = "tri" =>
             \A t \in {_qobj_add_triangle(Mem({}), Mesh,
                                          meshVertexMaps.arr[curMesh + 1],
                                          firstVertex, v1, v2, positions,
                                          texCoords, normals)} :
                /\ MeshInBounds(t.mesh)
                /\ \A k \in 1..Len(t.keys) : ReadsInPools(Mesh, t.keys[k])
                /\ Written(positions.data) /\ Written(normals.data)
                      /\ Written(texCoords.data) /\ Written(Mesh.vdata)
                      => Written(t.mesh.vdata)

\* the triangle about to be added makes both buffers of its mesh grow, and
\* the position pool has grown
C29_Witness ==
    /\ pc = "tri"
    /\ positions.cap > InitialCap
    /\ \E t \in {_qobj_add_triangle(Mem({}), Mesh,
                                     meshVertexMaps.arr[curMesh + 1],
                                     firstVertex, v1, v2, positions,
                                     texCoords, normals)} :
          /\ t.err = QOBJ_SUCCESS
          /\ t.mesh.indexCap > Mesh.indexCap
          /\ t.mesh.vertexCap > Mesh.vertexCap

\* C30: every free and realloc of qobj_load_obj, and of the qobj_free_obj
\* that follows it, is given a block the load allocated and that is still
\* live: no block is freed twice and no pointer the load did not allocate
\* is freed.
C30_FreesOnlyLiveBlocks ==
    src \notin MtlFamilies => badFree = {}

====
